---- MODULE Spec2Model ----
(***************************************************************************)
(* The mpv process manager (class MpvProcess): the control channel to an   *)
(* external mpv process.  One instance owns a child process, a socket to   *)
(* the process's IPC pipe, a table of pending requests keyed by request    *)
(* id, and a receive buffer holding the partial last line.                 *)
(*                                                                         *)
(* Wire alphabet.  A byte stream is a sequence of symbols.  A symbol is    *)
(* one JSON token ("{", "}", a key with its colon, a digit, a quote, the   *)
(* literal null), a run of ASCII characters inside a string ("success",    *)
(* "file-loaded", ...), a space, a line feed, or one byte of the two-byte  *)
(* UTF-8 encoding of U+00E9 ("C3" followed by "A9").  ASCII bytes decode   *)
(* one by one, so a cut inside a run of ASCII characters behaves as a cut  *)
(* at the run's boundary; the multi-byte character keeps its bytes.        *)
(***************************************************************************)
EXTENDS Integers, Sequences, FiniteSets, TLC

\* ---------------------------------------------------------------- bounds
\* the host calls command() while fewer than this many request ids are
\* allocated or waiting to be
MaxCalls == 3
\* the same, where process lives follow one another
LifeCalls == 2
\* spawn() calls that start a process
MaxSpawns == 2
\* connect attempts (sockets created) over one behaviour
MaxSocks == 2
\* lines of a byte stream fed to the receive path
MaxLines == 3
\* command() calls of the host while the connect attempts are followed
ConnCalls == 1
\* observeProperty() calls of the host
ObsCalls == 1
\* the largest number written on the wire
MaxNumber == 60
\* command() calls on each of two instances living side by side
PairCalls == 2
\* host requests routed through the readiness wrapper
WrapCalls == 2
\* calls of generatePreview, cancelPending and destroy on the preview module
MaxPreviews == 3
\* generatePreview and cancelPending calls while the host's handler is
\* followed step by step
CaptCalls == 2
\* capture requests that reach the host from elsewhere than the module
DirectCalls == 1
\* insertions into the preview cache
MaxInserts == 183
\* reads of the preview cache that hit
MaxHits == 2
\* exits of the capture engine's process
MaxExits == 1
\* client messages from the engine's window
MaxRelayMsgs == 3
\* the longest step of the clock between two events, and its last value, ms
RelayTick == 125
MaxRelayTime == 750

\* ------------------------------------------------------ program constants
\* setTimeout(..., 10000) of a transmitted command
RequestTimeoutMs == 10000
\* setTimeout(..., 3000) of a command waiting for 'ready'
ReadyGraceMs == 3000
\* _connectSocket(retries = 10)
ConnectRetries == 10
\* Math.abs(time - this._lastRequestedTime) < 0.25, in hundredths of a second
MinDelta == 25
\* if (previewCache.size > 180)
CacheLimit == 180
\* setTimeout(..., 250) of the mouse click
ClickDelayMs == 250

\* ------------------------------------------------------------ JSON values
\* A JSON value is a sequence of strings: <<>> is undefined (the field is
\* absent), <<"null">> is null, <<"num", d>> the number written d, and
\* <<"str", w1, ..., wn>> the string of the characters w1 ... wn.
Undefined == << >>
Null == <<"null">>
Num(d) == <<"num", d>>
Str(content) == <<"str">> \o content

\* The number literals of the wire, "0" to MaxNumber written in decimal, one
\* symbol each.
DigitSeq == [i \in 1..(MaxNumber + 1) |-> ToString(i - 1)]
Digits == {DigitSeq[i] : i \in 1..(MaxNumber + 1)}
DigitValue(d) == CHOOSE n \in 0..MaxNumber : DigitSeq[n + 1] = d
DigitOf(n) == DigitSeq[n + 1]

IsUndefined(v) == v = Undefined
IsNum(v) == Len(v) = 2 /\ v[1] = "num"
IsStr(v) == Len(v) >= 1 /\ v[1] = "str"
StrContent(v) == SubSeq(v, 2, Len(v))

\* JavaScript's  v > 0  for a JSON value: a number compares by value, a
\* string is converted to a number first (digits only; "" is 0, anything
\* else NaN), null is 0 and undefined NaN.
GreaterThanZero(v) ==
  IF IsNum(v) THEN DigitValue(v[2]) > 0
  ELSE IF IsStr(v)
    THEN /\ Len(v) >= 2
         /\ \A i \in 2..Len(v) : v[i] \in Digits
         /\ \E i \in 2..Len(v) : v[i] # "0"
    ELSE FALSE

\* JavaScript truthiness of a JSON value.
Truthy(v) ==
  IF IsNum(v) THEN DigitValue(v[2]) # 0
  ELSE IF IsStr(v) THEN Len(v) >= 2
  ELSE FALSE

\* ------------------------------------------------------- transport codec
KeyTokens == {"request_id:", "error:", "data:", "event:"}

\* chunk.toString('utf-8'): each chunk is decoded on its own.  "C3" "A9" is
\* U+00E9; a lead byte without its continuation byte, and a continuation
\* byte without its lead byte, each decode to U+FFFD.
RECURSIVE Utf8Decode(_)
Utf8Decode(bytes) ==
  IF bytes = << >> THEN << >>
  ELSE IF Head(bytes) = "C3"
    THEN IF Len(bytes) >= 2 /\ bytes[2] = "A9"
           THEN <<"U+00E9">> \o Utf8Decode(SubSeq(bytes, 3, Len(bytes)))
           ELSE <<"U+FFFD">> \o Utf8Decode(Tail(bytes))
    ELSE IF Head(bytes) = "A9"
      THEN <<"U+FFFD">> \o Utf8Decode(Tail(bytes))
      ELSE <<Head(bytes)>> \o Utf8Decode(Tail(bytes))

\* text.split('\n'): the pieces between line feeds, the last piece included.
RECURSIVE SplitLF(_, _, _)
SplitLF(text, cur, acc) ==
  IF text = << >> THEN Append(acc, cur)
  ELSE IF Head(text) = "LF"
    THEN SplitLF(Tail(text), << >>, Append(acc, cur))
    ELSE SplitLF(Tail(text), Append(cur, Head(text)), acc)

\* !line.trim()
IsBlank(line) == \A i \in 1..Len(line) : line[i] = "SP"

EmptyMsg ==
  [request_id |-> Undefined, error |-> Undefined, data |-> Undefined,
   event |-> Undefined]

KeyField(k) ==
  CASE k = "request_id:" -> "request_id" [] k = "error:" -> "error"
    [] k = "data:" -> "data" [] OTHER -> "event"

SyntaxError == [kind |-> "error", msg |-> EmptyMsg]

\* The index of the first quote at or after i, 0 when there is none.
RECURSIVE ClosingQuote(_, _)
ClosingQuote(s, i) ==
  IF i > Len(s) THEN 0
  ELSE IF s[i] = "Q" THEN i ELSE ClosingQuote(s, i + 1)

\* JSON.parse(line).  mode is what the parser expects at position i:
\* "start" (a value), "key" (a key or the closing brace), a key token (that
\* key's value) or "end" (nothing but white space).  A duplicate key keeps
\* its last value.  The result is an object, the literal null, or an error.
RECURSIVE ParseAt(_, _, _, _, _)
ParseAt(s, i, mode, kind, m) ==
  IF i > Len(s)
    THEN IF mode = "end" THEN [kind |-> kind, msg |-> m] ELSE SyntaxError
  ELSE IF s[i] = "SP" THEN ParseAt(s, i + 1, mode, kind, m)
  ELSE IF mode = "start"
    THEN IF s[i] = "{" THEN ParseAt(s, i + 1, "key", "object", m)
         ELSE IF s[i] = "null" THEN ParseAt(s, i + 1, "end", "null", m)
         ELSE SyntaxError
  ELSE IF mode = "key"
    THEN IF s[i] = "}" THEN ParseAt(s, i + 1, "end", kind, m)
         ELSE IF s[i] \in KeyTokens THEN ParseAt(s, i + 1, s[i], kind, m)
         ELSE SyntaxError
  ELSE IF mode = "end" THEN SyntaxError
  ELSE \* mode is a key token: its value
    IF s[i] \in Digits
      THEN ParseAt(s, i + 1, "key", kind,
                   [m EXCEPT ![KeyField(mode)] = Num(s[i])])
    ELSE IF s[i] = "null"
      THEN ParseAt(s, i + 1, "key", kind,
                   [m EXCEPT ![KeyField(mode)] = Null])
    ELSE IF s[i] = "Q"
      THEN LET j == ClosingQuote(s, i + 1) IN
           IF j = 0 THEN SyntaxError
           ELSE ParseAt(s, j + 1, "key", kind,
                        [m EXCEPT ![KeyField(mode)] =
                                    Str(SubSeq(s, i + 1, j - 1))])
    ELSE SyntaxError

JsonParse(line) == ParseAt(line, 1, "start", "error", EmptyMsg)

\* --------------------------------------------------- request correlator
\* The correlator's part of an instance, as the record the handlers below
\* take and return:
\*   requestId  this._requestId
\*   pending    this._pending, request id -> the promise it settles
\*   timers     the armed request timers, request id -> [promise, delay]
\*   waiters    the commands waiting for 'ready', in the order their
\*              once('ready') listeners were added: [promise, cmd, delay]
\*   promises   the promises command() has returned that the instance
\*              still holds a reference to (in a pending entry, a timer
\*              callback or a waiting command): [st, val]; a promise no
\*              closure of the instance refers to can never change again
\*   written    per such promise, the payloads written to the socket for it
\*   emitted    the events emitted for frames: [name, msg]
\*   recvBuf    this._recvBuf
\*   settled    the settlements the handler has made so far, in order:
\*              [promise, st, val, written]
\*   fired      the events the handler has emitted so far for the process
\*              and the socket ('ready', 'error', 'exit'): [name, arg]
\*   observedProps  this._observedProps, observation id -> property name
\*   nextObsId  this._nextObsId
\*   boots      the running _observeDefaults() calls, each suspended at an
\*              await: [await, next], the promise awaited and the index in
\*              the property list of the property to observe next
Unsettled == [st |-> "unsettled", val |-> Undefined]

Remove(f, k) == [x \in DOMAIN f \ {k} |-> f[x]]
Put(f, k, v) == [x \in DOMAIN f \cup {k} |-> IF x = k THEN v ELSE f[x]]

\* resolve(val) or reject(val) of promise p: a settled promise stays as it is.
Settle(c, p, st, val) ==
  IF c.promises[p].st = "unsettled"
    THEN [c EXCEPT !.promises[p] = [st |-> st, val |-> val],
                   !.settled = Append(@, [promise |-> p, st |-> st,
                                          val |-> val,
                                          written |-> c.written[p]])]
    ELSE c

TimeoutText == Str(<<"mpv command timed out">>)
DestroyedText == Str(<<"mpv destroyed">>)
GenericErrorText == Str(<<"mpv error">>)
SuccessMarker == Str(<<"success">>)

\* msg.request_id !== undefined && msg.request_id > 0
IsResponseAnyId(m) == ~IsUndefined(m.request_id)
IsResponse(m) == ~IsUndefined(m.request_id) /\ GreaterThanZero(m.request_id)

\* this._pending.get(msg.request_id): the ids of the entry found, a set of
\* at most one.  Map keys compare without conversion: a string never equals
\* a number.
LookupOldest(pending, rid) ==
  IF DOMAIN pending = {} THEN {}
  ELSE {CHOOSE k \in DOMAIN pending : \A j \in DOMAIN pending : k <= j}
LookupPending(pending, rid) ==
  IF IsNum(rid) /\ DigitValue(rid[2]) \in DOMAIN pending
    THEN {DigitValue(rid[2])} ELSE {}

\* new Error(msg.error || 'mpv error').message
ErrorText(e) ==
  IF ~Truthy(e) THEN GenericErrorText
  ELSE IF IsNum(e) THEN Str(<<e[2]>>) ELSE e

\* msg.error === 'success' ? resolve(msg.data) : reject(new Error(...))
ResponseOutcomeAlwaysResolve(m) == [st |-> "resolved", val |-> m.data]
ResponseOutcome(m) ==
  IF m.error = SuccessMarker
    THEN [st |-> "resolved", val |-> m.data]
    ELSE [st |-> "rejected", val |-> ErrorText(m.error)]

KnownEvents ==
  {"log-message", "property-change", "file-loaded", "end-file", "seek",
   "playback-restart", "client-message"}

\* The emissions for an event frame: 'mpv-event', then the event's own name
\* when the switch knows it.
EventEmissions(m) ==
  IF ~Truthy(m.event) THEN << >>
  ELSE <<[name |-> "mpv-event", msg |-> m]>> \o
       (IF IsStr(m.event) /\ Len(m.event) = 2 /\ m.event[2] \in KnownEvents
          THEN <<[name |-> m.event[2], msg |-> m]>> ELSE << >>)

\* _handleMessage(msg) for an object msg
HandleMessage(c, m) ==
  IF IsResponse(m)
    THEN LET hit == LookupPending(c.pending, m.request_id) IN
         IF hit = {} THEN c
         ELSE LET k == CHOOSE x \in hit : TRUE
                  o == ResponseOutcome(m) IN
              Settle([c EXCEPT !.timers = Remove(@, k),
                               !.pending = Remove(@, k)],
                     c.pending[k], o.st, o.val)
    ELSE [c EXCEPT !.emitted = @ \o EventEmissions(m)]

\* The body of _onData's loop for one line.  A line that does not parse is
\* ignored; the literal null parses, _handleMessage throws reading
\* msg.request_id, and the same catch ignores it.
OnLineEscalate(c, line) ==
  IF IsBlank(line) THEN c
  ELSE LET r == JsonParse(line) IN
       IF r.kind = "object" THEN HandleMessage(c, r.msg)
       ELSE [c EXCEPT !.emitted =
                        Append(@, [name |-> "error", msg |-> EmptyMsg])]
OnLine(c, line) ==
  IF IsBlank(line) THEN c
  ELSE LET r == JsonParse(line) IN
       IF r.kind = "object" THEN HandleMessage(c, r.msg) ELSE c

RECURSIVE DispatchLines(_, _)
DispatchLines(c, lines) ==
  IF lines = << >> THEN c
  ELSE DispatchLines(OnLine(c, Head(lines)), Tail(lines))

\* _onData(chunk)
OnData(c, chunk) ==
  LET pieces == SplitLF(c.recvBuf \o Utf8Decode(chunk), << >>, << >>)
      lines == SubSeq(pieces, 1, Len(pieces) - 1)
  IN  DispatchLines([c EXCEPT !.recvBuf = pieces[Len(pieces)]], lines)

\* send() of command(): with no socket or not ready the promise resolves to
\* null; otherwise the next id is allocated, its timer armed, its entry
\* registered and the payload written.
NextIdNoIncrement(c) == IF c.requestId = 0 THEN 1 ELSE c.requestId
NextId(c) == c.requestId + 1

SendNoTimer(c, p, connected) ==
  IF ~connected THEN Settle(c, p, "resolved", Null)
  ELSE LET id == NextId(c) IN
       [c EXCEPT !.requestId = id,
                 !.pending = Put(@, id, p),
                 !.written = [@ EXCEPT ![p] = @ + 1]]

Send(c, p, connected) ==
  IF ~connected THEN Settle(c, p, "resolved", Null)
  ELSE LET id == NextId(c) IN
       [c EXCEPT !.requestId = id,
                 !.timers = Put(@, id, [promise |-> p,
                                        delay |-> RequestTimeoutMs]),
                 !.pending = Put(@, id, p),
                 !.written = [@ EXCEPT ![p] = @ + 1]]

\* A name for a new promise: the least one not in use.
FreshPromise(promises) ==
  CHOOSE n \in 1..(Cardinality(DOMAIN promises) + 1) :
    /\ n \notin DOMAIN promises
    /\ \A j \in 1..(n - 1) : j \in DOMAIN promises

\* command(...args): the promise is created, then sent at once when the
\* instance is connected, and otherwise left waiting for 'ready' with its
\* grace timer armed.
Command(c, cmd, connected) ==
  LET p == FreshPromise(c.promises)
      c1 == [c EXCEPT !.promises = Put(@, p, Unsettled),
                      !.written = Put(@, p, 0)]
  IN  IF connected THEN Send(c1, p, connected)
      ELSE [c1 EXCEPT !.waiters =
              Append(@, [promise |-> p, cmd |-> cmd,
                         delay |-> ReadyGraceMs])]

\* emit('ready'): the once('ready') listeners of the waiting commands run in
\* the order they were added; each clears its grace timer and sends.
RECURSIVE ReadyListeners(_, _, _)
ReadyListeners(c, ws, connected) ==
  IF ws = << >> THEN c
  ELSE ReadyListeners(Send(c, Head(ws).promise, connected), Tail(ws),
                      connected)

\* The events of the process and the socket, with their argument.
ReadyEvent == [name |-> "ready", arg |-> << >>]
ProcErrorEvent == [name |-> "error", arg |-> <<"child process error">>]
ConnectErrorEvent ==
  [name |-> "error", arg |-> <<"Could not connect to mpv IPC pipe: ">>]
ExitEventNoCode(code) == [name |-> "exit", arg |-> Null]
ExitEvent(code) == [name |-> "exit", arg |-> code]
\* The exit codes a process ends with: 0, another code, or null when a
\* signal ended it.
ExitCodes == {Num("0"), Num("1"), Null}

EmitReadyBeforeReady(c, connected) ==
  ReadyListeners([c EXCEPT !.waiters = << >>,
                           !.fired = Append(@, ReadyEvent)],
                 c.waiters, FALSE)
EmitReady(c, connected) ==
  ReadyListeners([c EXCEPT !.waiters = << >>,
                           !.fired = Append(@, ReadyEvent)],
                 c.waiters, connected)

RemoveAt(s, i) == SubSeq(s, 1, i - 1) \o SubSeq(s, i + 1, Len(s))

\* observeProperty(name): the next observation id is taken, the property
\* registered under it, and the observe_property command issued.
ObservePropertySameId(c, name, connected) ==
  Command([c EXCEPT !.observedProps =
                      Put(@, IF c.nextObsId > 1 THEN c.nextObsId - 1 ELSE 1,
                          name)],
          "observe_property", connected)
ObserveProperty(c, name, connected) ==
  Command([c EXCEPT !.nextObsId = @ + 1,
                    !.observedProps = Put(@, c.nextObsId, name)],
          "observe_property", connected)

\* The property list of _observeDefaults().
DefaultPropsShort == <<"time-pos", "duration", "pause">>
DefaultProps ==
  <<"time-pos", "duration", "pause", "volume", "mute", "speed",
    "eof-reached", "track-list", "chapter-list", "chapter", "media-title",
    "video-params", "demuxer-cache-state", "sub-delay", "sub-visibility",
    "estimated-vf-fps", "video-bitrate", "audio-bitrate", "drop-frame-count",
    "paused-for-cache", "seeking">>

\* A suspended _observeDefaults() resumes once the promise it awaits has
\* settled as st.  The rejection of request_log_messages is caught; the
\* rejection of an observe_property command ends the call.  Otherwise the
\* next property is observed and its command awaited, and after the last
\* one the call returns.
ResumeBoot(c, j, st, connected) ==
  LET b == c.boots[j] IN
  IF (st = "rejected" /\ b.next > 1) \/ b.next > Len(DefaultProps)
    THEN [c EXCEPT !.boots = RemoveAt(@, j)]
    ELSE [ObserveProperty(c, DefaultProps[b.next], connected)
            EXCEPT !.boots[j] = [await |-> FreshPromise(c.promises),
                                 next |-> b.next + 1]]

\* The continuations that run once a handler has returned: for every
\* settlement it made, from the i-th on and in their order, the
\* _observeDefaults() call awaiting that promise resumes.
RECURSIVE Resume(_, _, _)
Resume(c, i, connected) ==
  IF i > Len(c.settled) THEN c
  ELSE LET hit == {j \in 1..Len(c.boots) :
                     c.boots[j].await = c.settled[i].promise} IN
       IF hit = {} THEN Resume(c, i + 1, connected)
       ELSE Resume(ResumeBoot(c, CHOOSE j \in hit : TRUE, c.settled[i].st,
                              connected),
                   i + 1, connected)

\* The callback of a transmitted command's timer.
OnTimeoutKeepEntry(c, id) ==
  Settle([c EXCEPT !.timers = Remove(@, id)],
         c.timers[id].promise, "rejected", TimeoutText)
OnTimeout(c, id) ==
  Settle([c EXCEPT !.timers = Remove(@, id), !.pending = Remove(@, id)],
         c.timers[id].promise, "rejected", TimeoutText)

\* The callback of a waiting command's grace timer: waiters[i] is done and
\* its promise resolves to null.
OnGraceExpiredReject(c, i) ==
  Settle([c EXCEPT !.waiters = RemoveAt(@, i)],
         c.waiters[i].promise, "rejected", TimeoutText)
OnGraceExpired(c, i) ==
  Settle([c EXCEPT !.waiters = RemoveAt(@, i)],
         c.waiters[i].promise, "resolved", Null)

\* The tail of destroy(): every entry of the pending map has its timer
\* cleared and its promise rejected, and the map is cleared.
\* forEach visits the entries in insertion order, which is the order of
\* their ids.
RECURSIVE RejectAll(_, _)
RejectAll(c, ids) ==
  IF ids = {} THEN c
  ELSE LET k == CHOOSE x \in ids : \A y \in ids : x <= y IN
       RejectAll(Settle([c EXCEPT !.timers = Remove(@, k)],
                        c.pending[k], "rejected", DestroyedText),
                 ids \ {k})

RejectPendingKeepMap(c) == RejectAll(c, DOMAIN c.pending)
RejectPending(c) == [RejectAll(c, DOMAIN c.pending) EXCEPT !.pending = << >>]

\* ------------------------------------------------------------ the instance
VARIABLES
  process,          \* this.process: 0 (null) or the process started
  procs,            \* the processes whose 'exit' event is still to come
  nSpawns,          \* processes started so far
  socket,           \* this.socket: 0 (null) or a socket
  socks,            \* the sockets created and not yet closed:
                    \*   [state, retries], state "connecting", "open",
                    \*   "failed" (after 'error') or "destroyed"
  nSocks,           \* sockets created so far
  connTimers,       \* the armed setTimeout(_connectSocket(r)): r -> count
  ready,            \* this.ready
  observeDefaults,  \* this.observeDefaults
  requestId, pending, timers, waiters, promises, written, emitted, recvBuf,
  settled,          \* the settlements the last handler made, in order
  fired,            \* the process and socket events it emitted, in order
  observedProps, nextObsId, boots,
  stream,           \* a byte stream the engine writes to the socket,
  chunks,           \* the chunks it was cut into that are still to arrive,
  dispatched        \* and the settlements its chunks have made, in order

life == <<process, procs, nSpawns, socket, socks, nSocks, connTimers, ready,
          observeDefaults>>
corr == <<requestId, pending, timers, waiters, promises, written, emitted,
          recvBuf, settled, observedProps, nextObsId, boots>>
feed == <<stream, chunks, dispatched>>

\* The two instances the hosts construct, side by side
VARIABLES
  pipeCounter,      \* PIPE_COUNTER
  peers             \* the instances constructed, in order: [prefix,
                    \*   pipeName, ready, open (its socket is connected),
                    \*   c (its correlator)]

pair == <<pipeCounter, peers>>

\* The host's request handlers
VARIABLES
  wrapCalls         \* the requests handled, in order: [handler, fallback,
                    \*   pc ("waiting" for ready, "acting", "done"), out
                    \*   (what the wrapped code produced), inner (what
                    \*   withReady gave), result (what the handler gave)]

\* The renderer's preview module (HybridThumbnails); times are in
\* hundredths of a second
VARIABLES
  lastRequestedTime,  \* this._lastRequestedTime
  requestToken,       \* this._requestToken
  debounceTimer,      \* this._debounceTimer: 0 (null) or a timer id
  armedTimers,        \* the timers armed: [id, time, token]
  thumbPending,       \* this._pending
  queuedCapture,      \* this._queuedCapture: << >> (null) or <<[time, token]>>
  inflight,           \* the captureThumbnail calls awaited: [time, token]
  captures,           \* the captureThumbnail calls made so far, in order
  completions,        \* the calls that have ended, in order: [time, token,
                      \*   result, latest (the token then), applied]
  calls               \* the calls made on the module, in order:
                      \*   [op, time, accepted, duration (the player
                      \*   had a duration)]

thumbs == <<lastRequestedTime, requestToken, debounceTimer, armedTimers,
            thumbPending, queuedCapture, inflight, captures, completions,
            calls>>
\* The host's capture pipeline (mpv:capture-thumbnail)
VARIABLES
  previewCache,     \* the keys of previewCache in the Map's order
  insertedAt,       \* key -> the number of the insertion that put it there
  nInserts,         \* insertions made so far
  nHits,            \* reads that hit so far
  disk,             \* the keys whose thumbnail file exists in previewDir
  previewLoaded,    \* previewLoadedPath is the media path
  previewQueue,     \* previewQueue: 0 (the resolved promise) or the task
                    \*   whose promise it is
  tasks,            \* the tasks passed to queuePreview: [call, key, after
                    \*   (the promise it is chained to), pc]
  previewCmds,      \* the commands sent to the capture engine, in order:
                    \*   [task, cmd, key]
  received,         \* the capture requests the handler has been called with
  replies,          \* what the handler has given: [call, result]
  nDirect           \* requests from elsewhere so far

capt == <<previewCache, insertedAt, nInserts, nHits, disk, previewLoaded,
          previewQueue, tasks, previewCmds, received, replies, nDirect>>
\* The capture engine's process
VARIABLES
  previewEngine,    \* "none": previewMpv.process is null; "fresh": a process
                    \*   with no media loaded; "loaded": with the media
  nExits            \* exits of the capture engine so far

engine == <<previewEngine, nExits>>
\* The relay of input from the engine's window (client-message)
VARIABLES
  relayNow,         \* the time in ms
  clickTimer,       \* _clickTimer: 0 (null) or the id of a timer
  clickTimers,      \* the timers armed: [id, due]
  fullscreen,       \* the tracked fullscreen state
  relayLog          \* the messages handled and the play toggles made, in
                    \*   order: [ev, at, id]

relay == <<relayNow, clickTimer, clickTimers, fullscreen, relayLog>>
aux == <<pair, wrapCalls, thumbs, capt, engine, relay>>
vars == <<life, corr, feed, fired, aux>>

\* Module load: no instance constructed yet.
AuxInit ==
  /\ pipeCounter = 0 /\ peers = << >>
  /\ wrapCalls = << >>
  /\ lastRequestedTime = -100 /\ requestToken = 0
  /\ debounceTimer = 0 /\ armedTimers = {}
  /\ thumbPending = FALSE /\ queuedCapture = << >>
  /\ inflight = {} /\ captures = << >> /\ completions = << >>
  /\ calls = << >>
  /\ previewCache = << >> /\ insertedAt = << >>
  /\ nInserts = 0 /\ nHits = 0
  /\ disk = {} /\ previewLoaded = FALSE
  /\ previewQueue = 0 /\ tasks = << >> /\ previewCmds = << >>
  /\ received = {} /\ replies = {} /\ nDirect = 0
  /\ previewEngine = "none" /\ nExits = 0
  /\ relayNow = 0 /\ clickTimer = 0 /\ clickTimers = {}
  /\ fullscreen = FALSE /\ relayLog = << >>


Cur ==
  [requestId |-> requestId, pending |-> pending, timers |-> timers,
   waiters |-> waiters, promises |-> promises, written |-> written,
   emitted |-> emitted, recvBuf |-> recvBuf, settled |-> << >>,
   fired |-> << >>, observedProps |-> observedProps,
   nextObsId |-> nextObsId, boots |-> boots]

\* The promises some closure of the instance still refers to.
Referenced(c) ==
  {c.pending[k] : k \in DOMAIN c.pending}
    \cup {c.timers[k].promise : k \in DOMAIN c.timers}
    \cup {c.waiters[i].promise : i \in 1..Len(c.waiters)}

\* The end of a handler that leaves the correlator as c.
Assign(c) ==
  /\ requestId' = c.requestId
  /\ pending' = c.pending
  /\ timers' = c.timers
  /\ waiters' = c.waiters
  /\ promises' = [p \in Referenced(c) |-> c.promises[p]]
  /\ written' = [p \in Referenced(c) |-> c.written[p]]
  /\ emitted' = c.emitted
  /\ recvBuf' = c.recvBuf
  /\ settled' = c.settled
  /\ fired' = c.fired
  /\ observedProps' = c.observedProps
  /\ nextObsId' = c.nextObsId
  /\ boots' = c.boots

\* this.socket && this.ready
Connected == socket # 0 /\ ready

NoTimers == [r \in 0..ConnectRetries |-> 0]

\* The state after new MpvProcess({observeDefaults: false}).
Init ==
  /\ process = 0 /\ procs = {} /\ nSpawns = 0
  /\ socket = 0 /\ socks = << >> /\ nSocks = 0
  /\ connTimers = NoTimers
  /\ ready = FALSE
  /\ observeDefaults = FALSE
  /\ requestId = 0 /\ pending = << >> /\ timers = << >>
  /\ waiters = << >> /\ promises = << >> /\ written = << >>
  /\ emitted = << >> /\ recvBuf = << >>
  /\ settled = << >> /\ fired = << >>
  /\ observedProps = << >> /\ nextObsId = 1 /\ boots = << >>
  /\ stream = << >> /\ chunks = << >> /\ dispatched = << >>
  /\ AuxInit

\* spawn(): nothing when a process handle exists; otherwise the process is
\* started and the first connect attempt scheduled.
SpawnOverHandle(maxSpawns) ==
  /\ nSpawns < maxSpawns
  /\ nSpawns' = nSpawns + 1
  /\ process' = nSpawns + 1
  /\ procs' = procs \cup {nSpawns + 1}
  /\ connTimers' = [connTimers EXCEPT ![ConnectRetries] = @ + 1]
  /\ Assign(Cur)
  /\ UNCHANGED <<socket, socks, nSocks, ready, observeDefaults, feed, aux>>
Spawn(maxSpawns) ==
  /\ IF process # 0 THEN UNCHANGED <<process, procs, nSpawns, connTimers>>
     ELSE /\ nSpawns < maxSpawns
          /\ nSpawns' = nSpawns + 1
          /\ process' = nSpawns + 1
          /\ procs' = procs \cup {nSpawns + 1}
          /\ connTimers' = [connTimers EXCEPT ![ConnectRetries] = @ + 1]
  /\ Assign(Cur)
  /\ UNCHANGED <<socket, socks, nSocks, ready, observeDefaults, feed, aux>>

\* The child process's 'error' event: the error is emitted, ready cleared.
\* A process that failed to start delivers no 'exit' event afterwards.
ProcError(p, started) ==
  /\ p \in procs
  /\ ready' = FALSE
  /\ procs' = IF started THEN procs ELSE procs \ {p}
  /\ Assign([Cur EXCEPT !.fired = <<ProcErrorEvent>>])
  /\ UNCHANGED <<process, nSpawns, socket, socks, nSocks, connTimers,
                 observeDefaults, feed, aux>>

\* The child process's 'exit' event.
ProcExitKeepsReady(p, code) ==
  /\ p \in procs
  /\ procs' = procs \ {p}
  /\ Assign([Cur EXCEPT !.fired = <<ExitEvent(code)>>])
  /\ socket' = 0
  /\ process' = 0
  /\ UNCHANGED <<ready, nSpawns, socks, nSocks, connTimers, observeDefaults,
                 feed, aux>>

ProcExit(p, code) ==
  /\ p \in procs
  /\ procs' = procs \ {p}
  /\ Assign([Cur EXCEPT !.fired = <<ExitEvent(code)>>])
  /\ ready' = FALSE
  /\ socket' = 0
  /\ process' = 0
  /\ UNCHANGED <<nSpawns, socks, nSocks, connTimers, observeDefaults, feed, aux>>

\* A connect timer fires: _connectSocket(r) creates a socket.
ConnectTimerFire(r, maxSocks) ==
  /\ connTimers[r] > 0
  /\ nSocks < maxSocks
  /\ connTimers' = [connTimers EXCEPT ![r] = @ - 1]
  /\ nSocks' = nSocks + 1
  /\ socks' = Put(socks, nSocks + 1, [state |-> "connecting", retries |-> r])
  /\ Assign(Cur)
  /\ UNCHANGED <<process, procs, nSpawns, socket, ready, observeDefaults, feed, aux>>

\* _observeDefaults() up to its first await: command('request_log_messages').
ObserveDefaultsStart(c, connected) ==
  [Command(c, "request_log_messages", connected)
     EXCEPT !.boots = Append(@, [await |-> FreshPromise(c.promises),
                                 next |-> 1])]

\* The socket's 'connect' event.
SockConnect(s) ==
  /\ s \in DOMAIN socks /\ socks[s].state = "connecting"
  /\ procs # {}
  /\ socks' = [socks EXCEPT ![s].state = "open"]
  /\ socket' = s
  /\ ready' = TRUE
  /\ LET c1 == EmitReady([Cur EXCEPT !.recvBuf = << >>], TRUE)
     IN  Assign(IF observeDefaults THEN ObserveDefaultsStart(c1, TRUE) ELSE c1)
  /\ UNCHANGED <<process, procs, nSpawns, nSocks, connTimers, observeDefaults, feed, aux>>

\* if (retries > 0) setTimeout(() => this._connectSocket(retries - 1), 200)
ScheduleRetryAlways(ct, r) ==
  [ct EXCEPT ![IF r > 0 THEN r - 1 ELSE 0] = @ + 1]
ScheduleRetry(ct, r) ==
  IF r > 0 THEN [ct EXCEPT ![r - 1] = @ + 1] ELSE ct

\* The socket's 'error' event: another attempt is scheduled while retries
\* are left, and the error is emitted otherwise.  'close' follows.
SockError(s) ==
  /\ s \in DOMAIN socks /\ socks[s].state \in {"connecting", "open"}
  /\ socks' = [socks EXCEPT ![s].state = "failed"]
  /\ connTimers' = ScheduleRetry(connTimers, socks[s].retries)
  /\ Assign([Cur EXCEPT !.fired = IF socks[s].retries > 0 THEN << >>
                                ELSE <<ConnectErrorEvent>>])
  /\ UNCHANGED <<process, procs, nSpawns, socket, nSocks, ready,
                 observeDefaults, feed, aux>>

\* The socket's 'close' event.
SockClose(s) ==
  /\ s \in DOMAIN socks /\ socks[s].state \in {"open", "failed", "destroyed"}
  /\ socks' = Remove(socks, s)
  /\ socket' = 0
  /\ ready' = FALSE
  /\ Assign(Cur)
  /\ UNCHANGED <<process, procs, nSpawns, nSocks, connTimers, observeDefaults, feed, aux>>

\* command(...) called by the host.
CallCommand(maxCalls) ==
  /\ requestId + Len(waiters) < maxCalls
  /\ Assign(Command(Cur, "cmd", Connected))
  /\ UNCHANGED <<life, feed, aux>>

\* The timer of request id fires.  Time is not measured: an armed timer may
\* fire at any moment, which covers every order the delays allow.
TimeoutFire(id) ==
  /\ id \in DOMAIN timers
  /\ Assign(Resume(OnTimeout(Cur, id), 1, Connected))
  /\ UNCHANGED <<life, feed, aux>>

\* The grace timer of waiters[i] fires.
GraceFire(i) ==
  /\ i \in 1..Len(waiters)
  /\ Assign(Resume(OnGraceExpired(Cur, i), 1, Connected))
  /\ UNCHANGED <<life, feed, aux>>

\* The line the engine writes for a response to request rid.
ResponseBodies ==
  { <<"error:", "Q", "success", "Q", "data:", "7">>,
    <<"error:", "Q", "success", "Q">>,
    <<"error:", "Q", "property unavailable", "Q">>,
    <<"error:", "Q", "Q">>,
    << >> }
ResponseLine(rid, body) ==
  <<"{", "request_id:", DigitOf(rid)>> \o body \o <<"}", "LF">>

\* The socket's 'data' event with one whole response line, for an id the
\* instance has allocated (pending, or settled already).
Receive(rid, body) ==
  /\ \E s \in DOMAIN socks : socks[s].state = "open"
  /\ Assign(Resume(OnData(Cur, ResponseLine(rid, body)), 1, Connected))
  /\ UNCHANGED <<life, feed, aux>>

\* destroy()
Destroy ==
  /\ LET c1 == IF socket # 0 THEN Command(Cur, "quit", Connected) ELSE Cur
     IN  Assign(Resume(RejectPending(c1), 1, FALSE))
  /\ socks' = IF socket # 0 THEN [socks EXCEPT ![socket].state = "destroyed"]
              ELSE socks
  /\ socket' = 0
  /\ process' = 0
  /\ ready' = FALSE
  /\ UNCHANGED <<procs, nSpawns, nSocks, connTimers, observeDefaults, feed, aux>>

\* A socket that has failed or been destroyed has its 'close' event queued
\* in the same tick: no other handler runs before it.
Closing ==
  \E s \in DOMAIN socks : socks[s].state \in {"failed", "destroyed"}

\* The steps of the process, the sockets and the timers.
LifeNext(maxSpawns, maxSocks) ==
  \/ ~Closing /\ Spawn(maxSpawns)
  \/ \E p \in procs, started \in BOOLEAN : ~Closing /\ ProcError(p, started)
  \/ \E p \in procs, code \in ExitCodes : ~Closing /\ ProcExit(p, code)
  \/ \E r \in 0..ConnectRetries : ~Closing /\ ConnectTimerFire(r, maxSocks)
  \/ \E s \in DOMAIN socks : ~Closing /\ SockConnect(s)
  \/ \E s \in DOMAIN socks : ~Closing /\ SockError(s)
  \/ \E s \in DOMAIN socks : SockClose(s)
  \/ \E id \in DOMAIN timers : ~Closing /\ TimeoutFire(id)
  \/ \E i \in 1..Len(waiters) : ~Closing /\ GraceFire(i)
  \/ \E rid \in 1..requestId, body \in ResponseBodies :
       ~Closing /\ Receive(rid, body)
  \/ ~Closing /\ Destroy

NextWithin(maxCalls, maxSpawns, maxSocks) ==
  \/ LifeNext(maxSpawns, maxSocks)
  \/ ~Closing /\ CallCommand(maxCalls)

\* One process life: one spawn and one connect attempt, MaxCalls commands.
Next == NextWithin(MaxCalls, 1, 1)
Spec == Init /\ [][Next]_vars

\* One process life with every connect attempt the instance makes: more
\* sockets are allowed than one spawn can create.
NextConnect == NextWithin(ConnCalls, 1, ConnectRetries + 2)
SpecConnect == Init /\ [][NextConnect]_vars

\* ------------------------------------------------ the receive path alone
\* The lines the engine writes, without their line feeds.
EvTitle ==
  <<"{", "event:", "Q", "property-change", "Q", "data:", "Q", "C3", "A9", "Q",
    "}">>
EvLoaded == <<"{", "event:", "Q", "file-loaded", "Q", "}">>
EvZero == <<"{", "request_id:", "0", "event:", "Q", "seek", "Q", "}">>
RespEvent ==
  <<"{", "request_id:", "1", "error:", "Q", "success", "Q", "data:", "7",
    "event:", "Q", "seek", "Q", "}">>
RespFail ==
  <<"{", "request_id:", "2", "error:", "Q", "property unavailable", "Q", "}">>
Truncated == <<"{", "event:", "Q", "seek", "Q">>
Blank == <<"SP">>
NullLit == <<"null">>
WireLines ==
  {EvTitle, EvLoaded, EvZero, RespEvent, RespFail, Truncated, Blank, NullLit}

RECURSIVE JoinLines(_)
JoinLines(ls) ==
  IF ls = << >> THEN << >>
  ELSE Head(ls) \o <<"LF">> \o JoinLines(Tail(ls))

\* Up to MaxLines lines, each ended by a line feed; the last line may still
\* lack its line feed.
Streams ==
  LET whole == {JoinLines(ls) :
                  ls \in UNION {[1..n -> WireLines] : n \in 1..MaxLines}}
  IN  whole \cup {SubSeq(w, 1, Len(w) - 1) : w \in whole}

\* A stream arrives as one chunk, or cut in two at any offset.
Cuts(bytes) ==
  {<<bytes>>} \cup
  {<<SubSeq(bytes, 1, k), SubSeq(bytes, k + 1, Len(bytes))>> :
     k \in 1..(Len(bytes) - 1)}

\* A connected instance with three commands transmitted and unanswered.
CodecStart ==
  [requestId |-> 3,
   pending |-> [k \in 1..3 |-> k],
   timers |-> [k \in 1..3 |-> [promise |-> k, delay |-> RequestTimeoutMs]],
   waiters |-> << >>,
   promises |-> [k \in 1..3 |-> Unsettled],
   written |-> [k \in 1..3 |-> 1],
   emitted |-> << >>, recvBuf |-> << >>, settled |-> << >>,
   fired |-> << >>, observedProps |-> << >>, nextObsId |-> 1,
   boots |-> << >>]

InitCodec ==
  /\ process = 1 /\ procs = {1} /\ nSpawns = 1
  /\ socket = 1 /\ nSocks = 1
  /\ socks = Put(<< >>, 1, [state |-> "open", retries |-> ConnectRetries])
  /\ connTimers = NoTimers
  /\ ready = TRUE
  /\ observeDefaults = FALSE
  /\ requestId = CodecStart.requestId /\ pending = CodecStart.pending
  /\ timers = CodecStart.timers /\ waiters = CodecStart.waiters
  /\ promises = CodecStart.promises /\ written = CodecStart.written
  /\ emitted = << >> /\ recvBuf = << >> /\ settled = << >>
  /\ fired = << >>
  /\ observedProps = CodecStart.observedProps
  /\ nextObsId = CodecStart.nextObsId /\ boots = CodecStart.boots
  /\ stream \in Streams
  /\ chunks \in Cuts(stream)
  /\ dispatched = << >>
  /\ AuxInit

\* The socket's 'data' event with the next chunk of the stream.
CodecFeed ==
  /\ chunks # << >>
  /\ \E s \in DOMAIN socks : socks[s].state = "open"
  /\ LET c == Resume(OnData(Cur, Head(chunks)), 1, Connected)
     IN  Assign(c) /\ dispatched' = dispatched \o c.settled
  /\ chunks' = Tail(chunks)
  /\ UNCHANGED <<life, stream, aux>>

SpecCodec == InitCodec /\ [][CodecFeed]_vars

\* Process lives following one another: destroy, exit and spawn again.
NextLife == NextWithin(LifeCalls, MaxSpawns, MaxSocks)
SpecLife == Init /\ [][NextLife]_vars

\* Timers of one delay fire in the order they were armed in, so the oldest
\* request timer and the oldest grace timer fire in the end; the 'close'
\* event of a socket that failed or was destroyed is delivered.
SpecLifeLive ==
  /\ SpecLife
  /\ WF_vars(\E id \in DOMAIN timers :
               /\ \A other \in DOMAIN timers : id <= other
               /\ ~Closing /\ TimeoutFire(id))
  /\ WF_vars(~Closing /\ GraceFire(1))
  /\ WF_vars(\E s \in DOMAIN socks : Closing /\ SockClose(s))

\* ------------------------------------------- the observation registry
\* The state after new MpvProcess(options): default observation is on
\* unless the options say observeDefaults: false.
InitObserve ==
  /\ process = 0 /\ procs = {} /\ nSpawns = 0
  /\ socket = 0 /\ socks = << >> /\ nSocks = 0
  /\ connTimers = NoTimers
  /\ ready = FALSE
  /\ observeDefaults \in BOOLEAN
  /\ requestId = 0 /\ pending = << >> /\ timers = << >>
  /\ waiters = << >> /\ promises = << >> /\ written = << >>
  /\ emitted = << >> /\ recvBuf = << >>
  /\ settled = << >> /\ fired = << >>
  /\ observedProps = << >> /\ nextObsId = 1 /\ boots = << >>
  /\ stream = << >> /\ chunks = << >> /\ dispatched = << >>
  /\ AuxInit

\* observeProperty(name) called by the host.
CallObserveProperty(name, maxCalls) ==
  /\ nextObsId + Len(waiters) <= maxCalls
  /\ Assign(ObserveProperty(Cur, name, Connected))
  /\ UNCHANGED <<life, feed, aux>>

NextObserve ==
  \/ LifeNext(1, 1)
  \/ ~Closing /\ \E name \in {"filename"} : CallObserveProperty(name, ObsCalls)
SpecObserve == InitObserve /\ [][NextObserve]_vars

\* An instance whose first default observation has completed: connected,
\* the 21 properties registered, 22 requests answered.
InitReobserve ==
  /\ process = 1 /\ procs = {1} /\ nSpawns = 1
  /\ socket = 1 /\ nSocks = 1
  /\ socks = Put(<< >>, 1, [state |-> "open", retries |-> ConnectRetries])
  /\ connTimers = NoTimers
  /\ ready = TRUE
  /\ observeDefaults = TRUE
  /\ requestId = Len(DefaultProps) + 1
  /\ pending = << >> /\ timers = << >>
  /\ waiters = << >> /\ promises = << >> /\ written = << >>
  /\ emitted = << >> /\ recvBuf = << >>
  /\ settled = << >> /\ fired = << >>
  /\ observedProps = DefaultProps
  /\ nextObsId = Len(DefaultProps) + 1
  /\ boots = << >>
  /\ stream = << >> /\ chunks = << >> /\ dispatched = << >>
  /\ AuxInit

\* The connection is lost and made again, by a retry or after a new spawn.
NextReobserve == LifeNext(1, MaxSocks)
SpecReobserve == InitReobserve /\ [][NextReobserve]_vars

\* ------------------------------------------------- two instances at once
\* makePipeName(prefix): the counter is incremented first; the name is made
\* of the prefix, the pid of the host process and the counter.
MakePipeName(prefix, counter) == <<prefix, "pid", counter>>

\* The prefixes of the playback instance (the default) and of the capture
\* instance.
PipePrefixes == {"hybrid-mpv-ipc", "hybrid-mpv-thumb"}

\* The correlator fields the constructor sets.
NewCorrelator ==
  [requestId |-> 0, pending |-> << >>, timers |-> << >>, waiters |-> << >>,
   promises |-> << >>, written |-> << >>, emitted |-> << >>,
   recvBuf |-> << >>, settled |-> << >>, fired |-> << >>,
   observedProps |-> << >>, nextObsId |-> 1, boots |-> << >>]

\* The start and the end of a handler on a correlator held in a record.
Begin(c) == [c EXCEPT !.settled = << >>, !.fired = << >>]
Collect(c) ==
  [c EXCEPT !.promises = [p \in Referenced(c) |-> c.promises[p]],
            !.written = [p \in Referenced(c) |-> c.written[p]]]

\* The instance whose handlers socket s calls: the listeners are arrow
\* functions created in that instance's _connectSocket.
OwnerShared(s) == 1
Owner(s) == s

\* new MpvProcess({pipePrefix: prefix, ...}), once for each prefix.
NewMpvProcess(prefix) ==
  /\ \A i \in 1..Len(peers) : peers[i].prefix # prefix
  /\ pipeCounter' = pipeCounter + 1
  /\ peers' = Append(peers,
                     [prefix |-> prefix,
                      pipeName |-> MakePipeName(prefix, pipeCounter + 1),
                      ready |-> FALSE, open |-> FALSE,
                      c |-> NewCorrelator])
  /\ UNCHANGED <<life, corr, feed, fired, relay, wrapCalls, thumbs, capt, engine>>

\* command(...) on instance i.
PeerCommand(i) ==
  /\ peers[i].c.requestId + Len(peers[i].c.waiters) < PairCalls
  /\ peers' = [peers EXCEPT
                 ![i].c = Collect(Command(Begin(@), "cmd", peers[i].ready))]
  /\ UNCHANGED <<life, corr, feed, fired, relay, pipeCounter, wrapCalls, thumbs, capt, engine>>

\* 'connect' on the socket of instance s.
PeerConnect(s) ==
  /\ ~peers[s].open
  /\ LET i == Owner(s)
         opened == [peers EXCEPT ![s].open = TRUE]
     IN  peers' = [opened EXCEPT
                    ![i].ready = TRUE,
                    ![i].c = Collect(EmitReady(
                               [Begin(@) EXCEPT !.recvBuf = << >>], TRUE))]
  /\ UNCHANGED <<life, corr, feed, fired, relay, pipeCounter, wrapCalls, thumbs, capt, engine>>

\* The frames the engines write: responses to the ids in use and an event.
PairLines ==
  {ResponseLine(rid, body) :
     rid \in 1..PairCalls,
     body \in {<<"error:", "Q", "success", "Q", "data:", "7">>,
               <<"error:", "Q", "property unavailable", "Q">>}}
    \cup {EvLoaded \o <<"LF">>}

\* 'data' on the socket of instance s with one whole line.  The engine
\* writes the event once.
PeerData(s, line) ==
  /\ peers[s].open
  /\ line = EvLoaded \o <<"LF">> => peers[Owner(s)].c.emitted = << >>
  /\ peers' = [peers EXCEPT
                 ![Owner(s)].c = Collect(OnData(Begin(@), line))]
  /\ UNCHANGED <<life, corr, feed, fired, relay, pipeCounter, wrapCalls, thumbs, capt, engine>>

\* 'close' on the socket of instance s.
PeerClose(s) ==
  /\ peers[s].open
  /\ LET i == Owner(s)
         closed == [peers EXCEPT ![s].open = FALSE]
     IN  peers' = [closed EXCEPT ![i].ready = FALSE, ![i].c = Begin(@)]
  /\ UNCHANGED <<life, corr, feed, fired, relay, pipeCounter, wrapCalls, thumbs, capt, engine>>

NextPair ==
  \/ \E prefix \in PipePrefixes : NewMpvProcess(prefix)
  \/ \E i \in 1..Len(peers) : PeerCommand(i)
  \/ \E s \in 1..Len(peers) : PeerConnect(s)
  \/ \E s \in 1..Len(peers), line \in PairLines : PeerData(s, line)
  \/ \E s \in 1..Len(peers) : PeerClose(s)
SpecPair == Init /\ [][NextPair]_vars

\* ---------------------------------------------- the readiness wrapper
\* The characters of the texts the model writes as one symbol.
Spell(sym) ==
  CASE sym = "mpv command timed out" ->
         <<"m", "p", "v", " ", "c", "o", "m", "m", "a", "n", "d", " ", "t",
         "i", "m", "e", "d", " ", "o", "u", "t">>
    [] sym = "mpv destroyed" ->
         <<"m", "p", "v", " ", "d", "e", "s", "t", "r", "o", "y", "e", "d">>
    [] sym = "mpv error" ->
         <<"m", "p", "v", " ", "e", "r", "r", "o", "r">>
    [] sym = "property unavailable" ->
         <<"p", "r", "o", "p", "e", "r", "t", "y", " ", "u", "n", "a", "v",
         "a", "i", "l", "a", "b", "l", "e">>
    [] sym = "property not found" ->
         <<"p", "r", "o", "p", "e", "r", "t", "y", " ", "n", "o", "t", " ",
         "f", "o", "u", "n", "d">>
    [] sym = "mpv not ready" ->
         <<"m", "p", "v", " ", "n", "o", "t", " ", "r", "e", "a", "d", "y">>
    [] sym = "preview mpv not ready" ->
         <<"p", "r", "e", "v", "i", "e", "w", " ", "m", "p", "v", " ", "n",
         "o", "t", " ", "r", "e", "a", "d", "y">>
    [] sym = "Not connected" ->
         <<"N", "o", "t", " ", "c", "o", "n", "n", "e", "c", "t", "e", "d">>
    [] OTHER -> <<sym>>

RECURSIVE SpellAll(_)
SpellAll(syms) ==
  IF syms = << >> THEN << >> ELSE Spell(Head(syms)) \o SpellAll(Tail(syms))

\* String(err?.message || ''), as characters.
MessageOf(err) == IF IsStr(err) THEN SpellAll(StrContent(err)) ELSE << >>

\* String.prototype.toLowerCase, for the letters A to Z.
UpperCase ==
  <<"A", "B", "C", "D", "E", "F", "G", "H", "I", "J", "K", "L", "M", "N",
    "O", "P", "Q", "R", "S", "T", "U", "V", "W", "X", "Y", "Z">>
LowerCase ==
  <<"a", "b", "c", "d", "e", "f", "g", "h", "i", "j", "k", "l", "m", "n",
    "o", "p", "q", "r", "s", "t", "u", "v", "w", "x", "y", "z">>
ToLowerCaseNone(text) == text
ToLowerCase(text) ==
  [i \in 1..Len(text) |->
     IF \E k \in 1..Len(UpperCase) : UpperCase[k] = text[i]
       THEN LowerCase[CHOOSE k \in 1..Len(UpperCase) : UpperCase[k] = text[i]]
       ELSE text[i]]

\* String.prototype.includes
Includes(text, needle) ==
  \E i \in 0..(Len(text) - Len(needle)) :
    SubSeq(text, i + 1, i + Len(needle)) = needle

NotReadyNeedle == <<"n", "o", "t", " ", "r", "e", "a", "d", "y">>
NotConnectedNeedle ==
  <<"n", "o", "t", " ", "c", "o", "n", "n", "e", "c", "t", "e", "d">>
UnavailableNeedle ==
  <<"p", "r", "o", "p", "e", "r", "t", "y", " ", "u", "n", "a", "v", "a",
    "i", "l", "a", "b", "l", "e">>

\* The rejection of waitForReady's timer.
NotReadyError == Str(<<"mpv not ready">>)
\* The JSON value false.
False == <<"false">>

\* withReady(action, fallback), given what  await waitForReady(); return
\* await action()  produced: a value is returned, a failure of the "not
\* ready" or "not connected" class gives the fallback, another is thrown.
WithReady(out, fallback) ==
  IF out.st = "resolved" THEN [st |-> "returned", val |-> out.val]
  ELSE LET msg == ToLowerCase(MessageOf(out.val)) IN
       IF Includes(msg, NotReadyNeedle) \/ Includes(msg, NotConnectedNeedle)
         THEN [st |-> "returned", val |-> fallback]
         ELSE [st |-> "raised", val |-> out.val]

\* The catch of the mpv:get-property handler around withReady.
GetPropertyCatchAll(r) == [st |-> "returned", val |-> Null]
GetPropertyCatch(r) ==
  IF /\ r.st = "raised"
     /\ Includes(ToLowerCase(MessageOf(r.val)), UnavailableNeedle)
    THEN [st |-> "returned", val |-> Null]
    ELSE r

\* The handlers and the fallback each passes to withReady.
Handlers == {"mpv:command", "mpv:set-property", "mpv:get-property"}
HandlerFallback(handler) ==
  IF handler = "mpv:set-property" THEN False ELSE Null

\* What the handler gives for what withReady gave.
HandlerResult(handler, r) ==
  IF handler = "mpv:get-property" THEN GetPropertyCatch(r) ELSE r

\* What the wrapped call produces: a value (null when the command was never
\* sent), or a rejection of command(), or a failure of other code.
ActionOutcomes ==
  {[st |-> "resolved", val |-> v] : v \in {Null, Num("7")}}
    \cup {[st |-> "rejected", val |-> e] :
            e \in {TimeoutText, DestroyedText, GenericErrorText,
                   Str(<<"property unavailable">>),
                   Str(<<"property not found">>),
                   Str(<<"preview mpv not ready">>),
                   Str(<<"Not connected">>), Str(<< >>)}}

NoOutcome == [st |-> "none", val |-> Undefined]

\* Call k ends with the wrapped code having produced out.
Finish(k, out) ==
  LET w == wrapCalls[k]
      r == WithReady(out, w.fallback)
  IN  wrapCalls' = [wrapCalls EXCEPT
                      ![k] = [w EXCEPT !.pc = "done", !.out = out,
                                       !.inner = r,
                                       !.result = HandlerResult(w.handler, r)]]

\* ipcMain.handle(handler, ...): waitForReady resolves at once on a ready
\* instance and otherwise arms its timer and listens for 'ready'.
Invoke(handler) ==
  /\ Len(wrapCalls) < WrapCalls
  /\ wrapCalls' = Append(wrapCalls,
                         [handler |-> handler,
                          fallback |-> HandlerFallback(handler),
                          pc |-> IF ready THEN "acting" ELSE "waiting",
                          out |-> NoOutcome, inner |-> NoOutcome,
                          result |-> NoOutcome])
  /\ UNCHANGED <<life, corr, feed, fired, relay, pair, thumbs, capt, engine>>

\* The playback instance emits 'ready': every waiting call goes on.
MpvReady ==
  /\ ~ready
  /\ ready' = TRUE
  /\ wrapCalls' = [k \in 1..Len(wrapCalls) |->
                     IF wrapCalls[k].pc = "waiting"
                       THEN [wrapCalls[k] EXCEPT !.pc = "acting"]
                       ELSE wrapCalls[k]]
  /\ UNCHANGED <<process, procs, nSpawns, socket, socks, nSocks, connTimers,
                 observeDefaults, corr, feed, fired, relay, pair, thumbs,
                 capt, engine>>

\* The playback instance loses its connection.
MpvNotReady ==
  /\ ready
  /\ ready' = FALSE
  /\ UNCHANGED <<process, procs, nSpawns, socket, socks, nSocks, connTimers,
                 observeDefaults, corr, feed, fired, aux>>

\* The timer of waitForReady fires on call k.
WaitExpires(k) ==
  /\ wrapCalls[k].pc = "waiting"
  /\ Finish(k, [st |-> "rejected", val |-> NotReadyError])
  /\ UNCHANGED <<life, corr, feed, fired, relay, pair, thumbs, capt, engine>>

\* The wrapped call of call k settles.
ActionSettles(k, out) ==
  /\ wrapCalls[k].pc = "acting"
  /\ Finish(k, out)
  /\ UNCHANGED <<life, corr, feed, fired, relay, pair, thumbs, capt, engine>>

NextWrapper ==
  \/ \E handler \in Handlers : Invoke(handler)
  \/ MpvReady
  \/ MpvNotReady
  \/ \E k \in 1..Len(wrapCalls) : WaitExpires(k)
  \/ \E k \in 1..Len(wrapCalls), out \in ActionOutcomes : ActionSettles(k, out)
SpecWrapper == Init /\ [][NextWrapper]_vars

\* ------------------------------------------------- the preview module
Abs(x) == IF x < 0 THEN -x ELSE x

\* The times the pointer asks previews for.
PreviewTimes == {0, 20, 40, 100}

\* Math.abs(time - this._lastRequestedTime) < 0.25
TooCloseNever(time, last) == FALSE
TooClose(time, last) == Abs(time - last) < MinDelta

\* clearTimeout(handle): the timer with that id is no longer armed.
ClearTimeoutNone(armed, handle) == armed
ClearTimeout(armed, handle) == {t \in armed : t.id # handle}

\* token !== this._requestToken
IsStaleNever(token, latest) == FALSE
IsStale(token, latest) == token # latest

\* The queued request is run when the call in flight has ended:
\* this._queuedCapture && queued.token === this._requestToken
DrainsNever(queued, latest) == FALSE
Drains(queued, latest) == queued # << >> /\ queued[1].token = latest

\* The fields _capture works on.
CurThumbs ==
  [thumbPending |-> thumbPending, queuedCapture |-> queuedCapture,
   inflight |-> inflight, captures |-> captures]

\* _capture(time, token) up to its await: queued when a call is in flight,
\* and otherwise the call is made.
Capture(th, time, token) ==
  LET req == [time |-> time, token |-> token] IN
  IF th.thumbPending
    THEN [th EXCEPT !.queuedCapture = <<req>>]
    ELSE [th EXCEPT !.thumbPending = TRUE,
                    !.inflight = @ \cup {req},
                    !.captures = Append(@, req)]

AssignThumbs(th) ==
  /\ thumbPending' = th.thumbPending
  /\ queuedCapture' = th.queuedCapture
  /\ inflight' = th.inflight
  /\ captures' = th.captures

\* generatePreview with the token minted later, by the timer.
GeneratePreviewNoMint(time, hasDuration) ==
  /\ Len(calls) < MaxPreviews
  /\ IF ~hasDuration \/ TooClose(time, lastRequestedTime)
       THEN /\ calls' = Append(calls, [op |-> "generatePreview",
                                       time |-> time, accepted |-> FALSE,
                                       duration |-> hasDuration])
            /\ UNCHANGED <<lastRequestedTime, debounceTimer, armedTimers>>
       ELSE /\ calls' = Append(calls, [op |-> "generatePreview",
                                       time |-> time, accepted |-> TRUE,
                                       duration |-> hasDuration])
            /\ lastRequestedTime' = time
            /\ armedTimers' =
                 ClearTimeout(armedTimers, debounceTimer)
                   \cup {[id |-> debounceTimer + 1, time |-> time,
                          token |-> requestToken]}
            /\ debounceTimer' = debounceTimer + 1
  /\ UNCHANGED <<requestToken, thumbPending, queuedCapture, inflight,
                 captures, completions>>
  /\ UNCHANGED <<life, corr, feed, fired, relay, pair, wrapCalls, capt, engine>>

\* generatePreview(time, percent); hasDuration is this.player.duration
\* being set.
GeneratePreview(time, hasDuration) ==
  /\ Len(calls) < MaxPreviews
  /\ IF ~hasDuration \/ TooClose(time, lastRequestedTime)
       THEN /\ calls' = Append(calls, [op |-> "generatePreview",
                                       time |-> time, accepted |-> FALSE,
                                       duration |-> hasDuration])
            /\ UNCHANGED <<lastRequestedTime, requestToken, debounceTimer,
                           armedTimers>>
       ELSE /\ calls' = Append(calls, [op |-> "generatePreview",
                                       time |-> time, accepted |-> TRUE,
                                       duration |-> hasDuration])
            /\ lastRequestedTime' = time
            /\ requestToken' = requestToken + 1
            /\ armedTimers' =
                 ClearTimeout(armedTimers, debounceTimer)
                   \cup {[id |-> requestToken + 1, time |-> time,
                          token |-> requestToken + 1]}
            /\ debounceTimer' = requestToken + 1
  /\ UNCHANGED <<thumbPending, queuedCapture, inflight, captures,
                 completions>>
  /\ UNCHANGED <<life, corr, feed, fired, relay, pair, wrapCalls, capt, engine>>

\* The debounce timer t fires: _capture(time, token).
DebounceFire(t) ==
  /\ t \in armedTimers
  /\ armedTimers' = armedTimers \ {t}
  /\ AssignThumbs(Capture(CurThumbs, t.time, t.token))
  /\ UNCHANGED <<lastRequestedTime, requestToken, debounceTimer,
                 completions, calls>>
  /\ UNCHANGED <<life, corr, feed, fired, relay, pair, wrapCalls, capt, engine>>

\* What a captureThumbnail call gives: a payload with a data URL, null (the
\* fallback, or no media loaded), or a rejection.
CaptureResults == {"image", "null", "error"}

\* The call f ends with result: the part of _capture after its await, with
\* its finally block.
CaptureSettles(f, result) ==
  /\ f \in inflight
  /\ completions' =
       Append(completions,
              [time |-> f.time, token |-> f.token, result |-> result,
               latest |-> requestToken,
               applied |-> /\ result = "image"
                           /\ ~IsStale(f.token, requestToken)])
  /\ LET th == [CurThumbs EXCEPT !.thumbPending = FALSE,
                                 !.inflight = @ \ {f},
                                 !.queuedCapture = << >>]
     IN  IF Drains(queuedCapture, requestToken)
           THEN AssignThumbs(Capture(th, queuedCapture[1].time,
                                     queuedCapture[1].token))
           ELSE AssignThumbs(th)
  /\ UNCHANGED <<lastRequestedTime, requestToken, debounceTimer,
                 armedTimers, calls>>
  /\ UNCHANGED <<life, corr, feed, fired, relay, pair, wrapCalls, capt, engine>>

\* cancelPending() that also gave up the call in flight.
CancelPendingAbort ==
  /\ Len(calls) < MaxPreviews
  /\ calls' = Append(calls, [op |-> "cancelPending", time |-> 0,
                             accepted |-> TRUE, duration |-> TRUE])
  /\ requestToken' = requestToken + 1
  /\ queuedCapture' = << >>
  /\ armedTimers' = ClearTimeout(armedTimers, debounceTimer)
  /\ thumbPending' = FALSE
  /\ inflight' = {}
  /\ UNCHANGED <<lastRequestedTime, debounceTimer, captures, completions>>
  /\ UNCHANGED <<life, corr, feed, fired, relay, pair, wrapCalls, capt, engine>>

\* cancelPending() that also forgot the last requested time.
CancelPendingForgets ==
  /\ Len(calls) < MaxPreviews
  /\ calls' = Append(calls, [op |-> "cancelPending", time |-> 0,
                             accepted |-> TRUE, duration |-> TRUE])
  /\ requestToken' = requestToken + 1
  /\ queuedCapture' = << >>
  /\ armedTimers' = ClearTimeout(armedTimers, debounceTimer)
  /\ lastRequestedTime' = -100
  /\ UNCHANGED <<debounceTimer, thumbPending, inflight, captures,
                 completions>>
  /\ UNCHANGED <<life, corr, feed, fired, relay, pair, wrapCalls, capt, engine>>

\* cancelPending()
CancelPending ==
  /\ Len(calls) < MaxPreviews
  /\ calls' = Append(calls, [op |-> "cancelPending", time |-> 0,
                             accepted |-> TRUE, duration |-> TRUE])
  /\ requestToken' = requestToken + 1
  /\ queuedCapture' = << >>
  /\ armedTimers' = ClearTimeout(armedTimers, debounceTimer)
  /\ UNCHANGED <<lastRequestedTime, debounceTimer, thumbPending, inflight,
                 captures, completions>>
  /\ UNCHANGED <<life, corr, feed, fired, relay, pair, wrapCalls, capt, engine>>

\* destroy() of the module
ThumbsDestroy ==
  /\ Len(calls) < MaxPreviews
  /\ calls' = Append(calls, [op |-> "destroy", time |-> 0,
                             accepted |-> TRUE, duration |-> TRUE])
  /\ armedTimers' = ClearTimeout(armedTimers, debounceTimer)
  /\ queuedCapture' = << >>
  /\ UNCHANGED <<lastRequestedTime, requestToken, debounceTimer,
                 thumbPending, inflight, captures, completions>>
  /\ UNCHANGED <<life, corr, feed, fired, relay, pair, wrapCalls, capt, engine>>

NextThumbs ==
  \/ \E time \in PreviewTimes, hasDuration \in BOOLEAN :
       GeneratePreview(time, hasDuration)
  \/ \E t \in armedTimers : DebounceFire(t)
  \/ \E f \in inflight, result \in CaptureResults : CaptureSettles(f, result)
  \/ CancelPending
  \/ ThumbsDestroy
SpecThumbs == Init /\ [][NextThumbs]_vars

\* An armed timer fires in the end and a captureThumbnail call ends in the
\* end: each stage of the host's handler is bounded by a timer.
SpecThumbsLive ==
  /\ SpecThumbs
  /\ WF_vars(\E t \in armedTimers : DebounceFire(t))
  /\ WF_vars(\E f \in inflight, result \in CaptureResults :
               CaptureSettles(f, result))

\* --------------------------------------------- the host's capture handler
Range(f) == {f[x] : x \in DOMAIN f}

\* Math.round(Math.max(0, time) * 2) / 2 in hundredths of a second;
\* Math.round rounds a half upwards.
Rounded(time) ==
  LET safeTime == IF time < 0 THEN 0 ELSE time
  IN  ((2 * safeTime + 50) \div 100) * 50

\* The order of the Map after previewCache.get(key): as before.
MapGetTouch(cache, key) ==
  SelectSeq(cache, LAMBDA k : k # key) \o <<key>>
MapGet(cache, key) == cache

\* cacheSet(key, value): Map.set keeps the place of a key it holds and puts
\* a new key last; above 180 entries the first key is deleted.
CacheSet(cache, key) ==
  LET c1 == IF key \in Range(cache) THEN cache ELSE Append(cache, key)
  IN  IF Len(c1) > CacheLimit THEN Tail(c1) ELSE c1

\* fs.existsSync(thumbPath)
ExistsSyncNever(files, key) == FALSE
ExistsSync(files, key) == key \in files

\* queuePreview(task): the promise the task is chained to.
QueueAfterNone(queue) == 0
QueueAfter(queue) == queue

\* A task that ran only after a fulfilled promise: then(task) alone.
MayRunOnFulfilled(k) ==
  IF tasks[k].after = 0 THEN TRUE
  ELSE /\ tasks[tasks[k].after].pc = "done"
       /\ [call |-> tasks[tasks[k].after].call, result |-> "image"]
            \in replies

\* The task may run: the promise it is chained to has settled, fulfilled or
\* rejected (then(task, task)).
MayRun(k) ==
  IF tasks[k].after = 0 THEN TRUE ELSE tasks[tasks[k].after].pc = "done"

\* cacheSet(cacheKey, payload) in the handler
DoCacheSet(key) ==
  /\ previewCache' = CacheSet(previewCache, key)
  /\ insertedAt' = [x \in Range(CacheSet(previewCache, key)) |->
                      IF x = key /\ key \notin Range(previewCache)
                        THEN nInserts + 1 ELSE insertedAt[x]]
  /\ nInserts' = nInserts + 1

\* previewCache.get(cacheKey) that hits
DoCacheHit(key) ==
  /\ previewCache' = MapGet(previewCache, key)
  /\ nHits' = nHits + 1

\* The handler is called with request f; readyOk is withReady's wait for
\* the playback engine having succeeded.
HandleCapture(f, readyOk) ==
  LET key == Rounded(f.time)
      k == Len(tasks) + 1
  IN
  /\ received' = received \cup {f}
  /\ IF ~readyOk
       THEN /\ replies' = replies \cup {[call |-> f, result |-> "null"]}
            /\ UNCHANGED <<previewCache, nHits, tasks, previewQueue>>
       ELSE IF key \in Range(previewCache)
         THEN /\ replies' = replies \cup {[call |-> f, result |-> "image"]}
              /\ DoCacheHit(key)
              /\ UNCHANGED <<tasks, previewQueue>>
         ELSE /\ tasks' = Append(tasks, [call |-> f, key |-> key,
                                         after |-> QueueAfter(previewQueue),
                                         pc |-> "queued"])
              /\ previewQueue' = k
              /\ UNCHANGED <<replies, previewCache, nHits>>
  /\ UNCHANGED <<insertedAt, nInserts, disk, previewLoaded, previewCmds>>

\* The renderer's call f reaches the handler.
HostInvoke(f, readyOk) ==
  /\ f \in inflight /\ f \notin received
  /\ HandleCapture(f, readyOk)
  /\ UNCHANGED <<life, corr, feed, fired, relay, pair, wrapCalls, thumbs, nDirect, engine>>

\* A request from elsewhere reaches the handler.
DirectInvoke(time, readyOk) ==
  /\ nDirect < DirectCalls
  /\ nDirect' = nDirect + 1
  /\ HandleCapture([time |-> time, token |-> 0 - (nDirect + 1)], readyOk)
  /\ UNCHANGED <<life, corr, feed, fired, relay, pair, wrapCalls, thumbs, engine>>

\* Task k returns or throws: the handler gives result.
TaskEnds(k, result) ==
  /\ tasks' = [tasks EXCEPT ![k].pc = "done"]
  /\ replies' = replies \cup {[call |-> tasks[k].call, result |-> result]}

TaskGoes(k, pc) == tasks' = [tasks EXCEPT ![k].pc = pc] /\ replies' = replies

\* previewMpv.command(cmd, ...): engine is the process the command is
\* written to, "none" when command() finds no ready socket and waits.
IssueTo(k, cmd, eng) ==
  previewCmds' = Append(previewCmds,
                        [task |-> k, cmd |-> cmd, key |-> tasks[k].key,
                         engine |-> eng])
Issue(k, cmd) == IssueTo(k, cmd, previewEngine)

\* The last command of task k was written to a process.
Written(k) ==
  LET mine == SelectSeq(previewCmds, LAMBDA c : c.task = k)
  IN  mine # << >> /\ mine[Len(mine)].engine # "none"

\* if (!previewMpv.process) previewMpv.spawn(null, ...)
EnsureSpawnNever(eng) == eng
EnsureSpawn(eng) == IF eng = "none" THEN "fresh" ELSE eng

\* readFileSync, cacheSet and the return of the payload; readFileSync
\* throws when the file cannot be read, and the task throws with it.
ReadAndCache(k, readOk) ==
  IF readOk
    THEN DoCacheSet(tasks[k].key) /\ TaskEnds(k, "image")
    ELSE TaskEnds(k, "error")
           /\ UNCHANGED <<previewCache, insertedAt, nInserts>>

\* Task k starts: the cache is looked up again, then ensurePreviewProcess
\* is called: it spawns the engine if there is no process and awaits its
\* readiness.
TaskBegins(k) ==
  /\ tasks[k].pc = "queued" /\ MayRun(k)
  /\ IF tasks[k].key \in Range(previewCache)
       THEN /\ DoCacheHit(tasks[k].key) /\ TaskEnds(k, "image")
            /\ UNCHANGED previewEngine
       ELSE /\ TaskGoes(k, "ensure")
            /\ previewEngine' = EnsureSpawn(previewEngine)
            /\ UNCHANGED <<previewCache, nHits>>
  /\ UNCHANGED <<insertedAt, nInserts, disk, previewLoaded, previewQueue,
                 previewCmds, received, nDirect, nExits>>
  /\ UNCHANGED <<life, corr, feed, fired, relay, pair, wrapCalls, thumbs>>

\* ensurePreviewProcess settles: ready, or 'preview mpv not ready' which
\* withReady turns into null.
EnsureSettles(k, ok) ==
  /\ tasks[k].pc = "ensure"
  /\ ok => previewEngine # "none"
  /\ IF ~ok THEN TaskEnds(k, "null") /\ UNCHANGED previewCmds
     ELSE IF previewLoaded
       THEN TaskGoes(k, "seek") /\ Issue(k, "seek")
       ELSE TaskGoes(k, "loadfile") /\ Issue(k, "loadfile")
  /\ UNCHANGED <<previewCache, insertedAt, nInserts, nHits, disk,
                 previewLoaded, previewQueue, received, nDirect>>
  /\ UNCHANGED <<life, corr, feed, fired, relay, pair, wrapCalls, thumbs, engine>>

\* The command task k awaits settles; a rejection ends the task, and the
\* handler throws it on. A command that was written is answered by a live
\* process or times out; one that found no ready socket resolves with null
\* after the grace time, and the task goes on.
CommandSettles(k, ok, readOk) ==
  /\ tasks[k].pc \in {"loadfile", "pause", "seek", "screenshot"}
  /\ IF Written(k) THEN ok => previewEngine # "none" ELSE ok
  /\ IF ~ok
       THEN /\ TaskEnds(k, "error")
            /\ UNCHANGED <<previewCmds, previewLoaded, disk, previewCache,
                           insertedAt, nInserts, previewEngine>>
       ELSE CASE tasks[k].pc = "loadfile" ->
                   /\ previewEngine' =
                        IF Written(k) THEN "loaded" ELSE previewEngine
                   /\ TaskGoes(k, "pause")
                   /\ IssueTo(k, "pause", previewEngine')
                   /\ UNCHANGED <<previewLoaded, disk, previewCache,
                                  insertedAt, nInserts>>
              [] tasks[k].pc = "pause" ->
                   /\ previewLoaded' = TRUE
                   /\ TaskGoes(k, "seek") /\ Issue(k, "seek")
                   /\ UNCHANGED <<disk, previewCache, insertedAt, nInserts,
                                  previewEngine>>
              [] tasks[k].pc = "seek" ->
                   /\ TaskGoes(k, "settle")
                   /\ UNCHANGED <<previewCmds, previewLoaded, disk,
                                  previewCache, insertedAt, nInserts,
                                  previewEngine>>
              [] tasks[k].pc = "screenshot" ->
                   /\ disk' = IF Written(k) THEN disk \cup {tasks[k].key}
                                            ELSE disk
                   /\ ReadAndCache(k, readOk /\ Written(k))
                   /\ UNCHANGED <<previewCmds, previewLoaded, previewEngine>>
  /\ UNCHANGED <<nHits, previewQueue, received, nDirect, nExits>>
  /\ UNCHANGED <<life, corr, feed, fired, relay, pair, wrapCalls, thumbs>>

\* The capture engine's process exits ('exit': ready = false, socket and
\* process = null); previewLoadedPath is left as it is.
PreviewExit ==
  /\ nExits < MaxExits
  /\ previewEngine # "none"
  /\ previewEngine' = "none"
  /\ nExits' = nExits + 1
  /\ UNCHANGED <<life, corr, feed, fired, relay, pair, wrapCalls, thumbs, capt>>

\* The 70 ms after the seek are over: the screenshot is taken unless the
\* file exists, and then the file is read.
SettleEnds(k, readOk) ==
  /\ tasks[k].pc = "settle"
  /\ IF ExistsSync(disk, tasks[k].key)
       THEN ReadAndCache(k, readOk) /\ UNCHANGED previewCmds
       ELSE /\ TaskGoes(k, "screenshot") /\ Issue(k, "screenshot")
            /\ UNCHANGED <<previewCache, insertedAt, nInserts>>
  /\ UNCHANGED <<nHits, disk, previewLoaded, previewQueue, received,
                 nDirect>>
  /\ UNCHANGED <<life, corr, feed, fired, relay, pair, wrapCalls, thumbs, engine>>

\* The times asked for: 0.25 s and 0.74 s round to 0.5 s, 1 s to itself.
CaptureTimes == {25, 74, 100}

\* The handler has given result for the renderer's call f.
Replied(f, result) == [call |-> f, result |-> result] \in replies

\* The cache is empty when the host starts; thumbnail files of an earlier
\* run may be in previewDir.
InitCapture ==
  /\ process = 0 /\ procs = {} /\ nSpawns = 0
  /\ socket = 0 /\ socks = << >> /\ nSocks = 0
  /\ connTimers = NoTimers
  /\ ready = FALSE
  /\ observeDefaults = FALSE
  /\ requestId = 0 /\ pending = << >> /\ timers = << >>
  /\ waiters = << >> /\ promises = << >> /\ written = << >>
  /\ emitted = << >> /\ recvBuf = << >>
  /\ settled = << >> /\ fired = << >>
  /\ observedProps = << >> /\ nextObsId = 1 /\ boots = << >>
  /\ stream = << >> /\ chunks = << >> /\ dispatched = << >>
  /\ pipeCounter = 0 /\ peers = << >>
  /\ wrapCalls = << >>
  /\ lastRequestedTime = -100 /\ requestToken = 0
  /\ debounceTimer = 0 /\ armedTimers = {}
  /\ thumbPending = FALSE /\ queuedCapture = << >>
  /\ inflight = {} /\ captures = << >> /\ completions = << >>
  /\ calls = << >>
  /\ previewCache = << >> /\ insertedAt = << >>
  /\ nInserts = 0 /\ nHits = 0
  /\ disk \in {{}, {Rounded(100)}}
  /\ previewLoaded = FALSE
  /\ previewQueue = 0 /\ tasks = << >> /\ previewCmds = << >>
  /\ received = {} /\ replies = {} /\ nDirect = 0
  /\ previewEngine = "none" /\ nExits = 0
  /\ relayNow = 0 /\ clickTimer = 0 /\ clickTimers = {}
  /\ fullscreen = FALSE /\ relayLog = << >>

NextCapture ==
  \/ \E time \in CaptureTimes :
       Len(calls) < CaptCalls /\ GeneratePreview(time, TRUE)
  \/ Len(calls) < CaptCalls /\ CancelPending
  \/ \E t \in armedTimers : DebounceFire(t)
  \/ \E f \in inflight, readyOk \in BOOLEAN : HostInvoke(f, readyOk)
  \/ \E time \in CaptureTimes, readyOk \in BOOLEAN : DirectInvoke(time, readyOk)
  \/ \E k \in 1..Len(tasks) : TaskBegins(k)
  \/ \E k \in 1..Len(tasks), ok \in BOOLEAN : EnsureSettles(k, ok)
  \/ \E k \in 1..Len(tasks), ok \in BOOLEAN, readOk \in BOOLEAN :
       CommandSettles(k, ok, readOk)
  \/ \E k \in 1..Len(tasks), readOk \in BOOLEAN : SettleEnds(k, readOk)
  \/ \E f \in inflight, result \in CaptureResults :
       Replied(f, result) /\ CaptureSettles(f, result)
SpecCapture == InitCapture /\ [][NextCapture]_vars

\* The same with the capture engine's process exiting at any moment.
NextRespawn == NextCapture \/ PreviewExit
SpecRespawn == InitCapture /\ [][NextRespawn]_vars

\* Every awaited step of the handler ends: waitForMpvReady rejects after
\* 4 s, command() after 10 s, the settle delay is a timer of 70 ms; an
\* invoke is delivered to the handler and its result to the renderer, and
\* an armed debounce timer fires.
SpecCaptureLive ==
  /\ SpecCapture
  /\ WF_vars(\E t \in armedTimers : DebounceFire(t))
  /\ WF_vars(\E f \in inflight, readyOk \in BOOLEAN : HostInvoke(f, readyOk))
  /\ WF_vars(\E k \in 1..Len(tasks) : TaskBegins(k))
  /\ WF_vars(\E k \in 1..Len(tasks), ok \in BOOLEAN : EnsureSettles(k, ok))
  /\ WF_vars(\E k \in 1..Len(tasks), ok \in BOOLEAN, readOk \in BOOLEAN :
               CommandSettles(k, ok, readOk))
  /\ WF_vars(\E k \in 1..Len(tasks), readOk \in BOOLEAN :
               SettleEnds(k, readOk))
  /\ WF_vars(\E f \in inflight, result \in CaptureResults :
               Replied(f, result) /\ CaptureSettles(f, result))

\* ------------------------------------------------- the cache filling up
\* Cache keys are numbered; the next key never asked for before.
NextKey ==
  IF previewCache = << >> THEN 1
  ELSE 1 + CHOOSE m \in Range(previewCache) :
             \A x \in Range(previewCache) : x <= m

\* The keys a request may carry that the cache lacks: a new one, or the
\* first one once it has been removed.
AbsentKeys == {k \in {1, NextKey} : k \notin Range(previewCache)}

\* A request for a key the cache lacks is carried through: its task ends
\* with cacheSet.
CacheMiss(key) ==
  /\ nInserts < MaxInserts
  /\ key \notin Range(previewCache)
  /\ DoCacheSet(key)
  /\ UNCHANGED <<nHits, disk, previewLoaded, previewQueue, tasks,
                 previewCmds, received, replies, nDirect>>
  /\ UNCHANGED <<life, corr, feed, fired, relay, pair, wrapCalls, thumbs, engine>>

\* A request for a key the cache holds is answered from it.
CacheHit(key) ==
  /\ nHits < MaxHits
  /\ key \in Range(previewCache)
  /\ DoCacheHit(key)
  /\ UNCHANGED <<insertedAt, nInserts, disk, previewLoaded, previewQueue,
                 tasks, previewCmds, received, replies, nDirect>>
  /\ UNCHANGED <<life, corr, feed, fired, relay, pair, wrapCalls, thumbs, engine>>

\* The keys a request may carry that the cache holds: the oldest entry,
\* the newest, or the first one.
HeldKeys ==
  IF previewCache = << >> THEN {}
  ELSE {Head(previewCache), previewCache[Len(previewCache)]}
         \cup ({1} \cap Range(previewCache))

NextCache ==
  \/ \E key \in AbsentKeys : CacheMiss(key)
  \/ \E key \in HeldKeys : CacheHit(key)
SpecCache == Init /\ [][NextCache]_vars

\* ------------------------------------------------------- the input relay
Messages == SelectSeq(relayLog, LAMBDA e : e.ev # "togglePause")

\* The clock moves on, at most to the moment the next timer is due.
RelayClock ==
  /\ relayNow < MaxRelayTime
  /\ \A t \in clickTimers : t.due > relayNow
  /\ relayNow' =
       LET next == relayNow + RelayTick
           dues == {t.due : t \in clickTimers}
       IN  IF \E d \in dues : d < next
             THEN CHOOSE d \in dues : \A e \in dues : d <= e
             ELSE next
  /\ UNCHANGED <<clickTimer, clickTimers, fullscreen, relayLog>>
  /\ UNCHANGED <<life, corr, feed, fired, pair, wrapCalls, thumbs, capt,
                 engine>>

\* if (_clickTimer) clearTimeout(_clickTimer)
ClearClickNever(armed, handle) == armed
ClearClick(armed, handle) ==
  IF handle # 0 THEN ClearTimeout(armed, handle) ELSE armed

\* 'hybrid-mouse-click'
MouseClick ==
  /\ Len(Messages) < MaxRelayMsgs
  /\ LET id == Len(Messages) + 1 IN
     /\ clickTimers' = ClearClick(clickTimers, clickTimer)
                         \cup {[id |-> id, due |-> relayNow + ClickDelayMs]}
     /\ clickTimer' = id
     /\ relayLog' = Append(relayLog,
                           [ev |-> "click", at |-> relayNow, id |-> id])
  /\ UNCHANGED <<relayNow, fullscreen>>
  /\ UNCHANGED <<life, corr, feed, fired, pair, wrapCalls, thumbs, capt,
                 engine>>

\* 'hybrid-mouse-dblclick'; winAlive is win && !win.isDestroyed()
MouseDblClick(winAlive) ==
  /\ Len(Messages) < MaxRelayMsgs
  /\ clickTimers' = ClearClick(clickTimers, clickTimer)
  /\ clickTimer' = 0
  /\ fullscreen' = IF winAlive THEN ~fullscreen ELSE fullscreen
  /\ relayLog' = Append(relayLog,
                        [ev |-> IF winAlive THEN "dblclick" ELSE "dblclick-nowin",
                         at |-> relayNow, id |-> Len(Messages) + 1])
  /\ UNCHANGED relayNow
  /\ UNCHANGED <<life, corr, feed, fired, pair, wrapCalls, thumbs, capt,
                 engine>>

\* The timer of a click fires; isReady is mpv.ready at that moment.
ClickTimerFire(t, isReady) ==
  /\ t \in clickTimers /\ t.due <= relayNow
  /\ clickTimers' = clickTimers \ {t}
  /\ clickTimer' = 0
  /\ relayLog' = IF isReady
                   THEN Append(relayLog, [ev |-> "togglePause",
                                          at |-> relayNow, id |-> t.id])
                   ELSE relayLog
  /\ UNCHANGED <<relayNow, fullscreen>>
  /\ UNCHANGED <<life, corr, feed, fired, pair, wrapCalls, thumbs, capt,
                 engine>>

NextRelay ==
  \/ RelayClock
  \/ MouseClick
  \/ \E winAlive \in BOOLEAN : MouseDblClick(winAlive)
  \/ \E t \in clickTimers, isReady \in BOOLEAN : ClickTimerFire(t, isReady)
SpecRelay == Init /\ [][NextRelay]_vars

\* ------------------------------------------------------------ properties
\* The message of the response line Receive(rid, body) delivers.
ResponseMsg(rid, body) ==
  JsonParse(SubSeq(ResponseLine(rid, body), 1,
                   Len(ResponseLine(rid, body)) - 1)).msg

\* The promises of the entries of the pending map other than entry k.
OtherPromises(k) == {pending[j] : j \in DOMAIN pending \ {k}}

\* C1: with any number of requests pending, a response frame carrying
\* request_id = k settles the promise of pending entry k and no other one,
\* whatever the order of the responses; every other entry stays in the map
\* with its timer, its promise unsettled.
C1_ResponseSettlesItsOwnRequest ==
  [][\A k \in 1..requestId, body \in ResponseBodies :
       (k \in DOMAIN pending /\ Receive(k, body)) =>
         /\ pending' = Remove(pending, k)
         /\ Len(settled') = 1
         /\ settled'[1].promise = pending[k]
         /\ \A j \in DOMAIN pending \ {k} :
              /\ j \in DOMAIN timers' /\ timers'[j] = timers[j]
              /\ promises'[pending[j]] = Unsettled]_vars

\* Three requests were pending together and the second was answered first.
C1_Witness ==
  /\ DOMAIN pending = {1, 3}
  /\ Len(settled) = 1
  /\ settled[1].promise = 2
  /\ settled[1].st = "resolved"

\* C2, as stated: a matching response clears the request's timer, removes
\* its entry, and resolves the promise with the response's data when the
\* error field is "success"; for any other error value it rejects with an
\* error whose text is that error field.
C2_RejectsWithTheErrorField ==
  [][\A k \in 1..requestId, body \in ResponseBodies :
       (k \in DOMAIN pending /\ Receive(k, body)) =>
         LET m == ResponseMsg(k, body) IN
         /\ k \notin DOMAIN timers'
         /\ k \notin DOMAIN pending'
         /\ Len(settled') = 1
         /\ IF m.error = Str(<<"success">>)
              THEN settled'[1].st = "resolved" /\ settled'[1].val = m.data
              ELSE settled'[1].st = "rejected"
                   /\ settled'[1].val = m.error]_vars

\* C2, amended: as above, but the rejection carries the error field's text
\* only when that field is a non-empty string; when the error field is
\* absent or empty the rejection carries the text "mpv error".
C2_RejectsWithErrorTextOrGeneric ==
  [][\A k \in 1..requestId, body \in ResponseBodies :
       (k \in DOMAIN pending /\ Receive(k, body)) =>
         LET m == ResponseMsg(k, body) IN
         /\ k \notin DOMAIN timers'
         /\ k \notin DOMAIN pending'
         /\ Len(settled') = 1
         /\ IF m.error = Str(<<"success">>)
              THEN settled'[1].st = "resolved" /\ settled'[1].val = m.data
              ELSE /\ settled'[1].st = "rejected"
                   /\ settled'[1].val =
                        IF m.error \in {Undefined, Str(<< >>)}
                          THEN Str(<<"mpv error">>) ELSE m.error]_vars

\* A request was rejected with the engine's error text.
C2_Witness ==
  /\ Len(settled) = 1
  /\ settled[1].st = "rejected"
  /\ settled[1].val = Str(<<"property unavailable">>)

\* C3: every transmitted, unanswered command has a 10 s timer armed; when it
\* fires the command is rejected with the timeout error and its entry
\* leaves the pending map, while every other entry, its timer and promise,
\* the waiting commands, the socket and the ready flag stay as they were.
C3_TimeoutRejectsOnlyItsRequest ==
  /\ [](\A k \in DOMAIN pending :
          k \in DOMAIN timers /\ timers[k].delay = 10000)
  /\ [][\A id \in DOMAIN timers :
          TimeoutFire(id) =>
            /\ id \in DOMAIN pending
            /\ pending' = Remove(pending, id)
            /\ timers' = Remove(timers, id)
            /\ settled' = <<[promise |-> pending[id], st |-> "rejected",
                             val |-> Str(<<"mpv command timed out">>),
                             written |-> 1]>>
            /\ \A p \in OtherPromises(id) : promises'[p] = promises[p]
            /\ waiters' = waiters
            /\ socket' = socket /\ ready' = ready /\ socks' = socks]_vars

\* A request timed out while another one stayed pending.
C3_Witness ==
  /\ Len(settled) = 1
  /\ settled[1].val = Str(<<"mpv command timed out">>)
  /\ DOMAIN pending # {}

\* C4: the request id counter never decreases, over destroy and a new
\* spawn included; every entry that enters the pending map has an id above
\* every id allocated before, so no id in the map is ever given out again.
C4_RequestIdsIncrease ==
  /\ [](\A k \in DOMAIN pending : k <= requestId)
  /\ [][/\ requestId' >= requestId
        /\ \A k \in DOMAIN pending' \ DOMAIN pending :
             requestId < k /\ k <= requestId'
        /\ \A k \in DOMAIN pending' \cap DOMAIN pending :
             pending'[k] = pending[k]]_vars

\* The second process life allocates an id above those of the first.
C4_Witness ==
  /\ nSpawns = 2
  /\ requestId >= 2
  /\ requestId \in DOMAIN pending

\* C5: destroy() rejects every entry of the pending map with the destroyed
\* error, clears their timers, and leaves the map empty with no timer that
\* command() created still armed: no request timer and no grace timer.
C5_DestroyLeavesNoTimerArmed ==
  [][Destroy =>
       /\ \A k \in DOMAIN pending :
            \E i \in 1..Len(settled') :
              /\ settled'[i].promise = pending[k]
              /\ settled'[i].st = "rejected"
              /\ settled'[i].val = Str(<<"mpv destroyed">>)
       /\ pending' = << >>
       /\ DOMAIN timers' = {}
       /\ waiters' = << >>]_vars

\* C6: after destroy() no command promise issued before it is unsettled:
\* each one that was unsettled, a command waiting for 'ready' included, has
\* been rejected with the destroyed error by destroy().
C6_DestroySettlesEveryCommand ==
  [][Destroy =>
       \A p \in DOMAIN promises :
         promises[p].st = "unsettled" =>
           /\ p \in DOMAIN promises' => promises'[p].st # "unsettled"
           /\ \E i \in 1..Len(settled') :
                /\ settled'[i].promise = p
                /\ settled'[i].st = "rejected"
                /\ settled'[i].val = Str(<<"mpv destroyed">>)]_vars

\* The promises of the commands waiting for 'ready'.
WaitingPromises == {waiters[i].promise : i \in 1..Len(waiters)}

\* C7: a command issued while the instance is not connected waits for
\* 'ready' with a 3 s grace timer and nothing written.  When 'ready' comes
\* first, each waiting command is written once and entered in the pending
\* map under one id; when its grace timer fires first, the promise resolves
\* to null, nothing is written and the pending map is unchanged.  No
\* command is rejected without having been written, none is written twice.
C7_NotReadyCommandWaitsThenNull ==
  /\ [](\A i \in 1..Len(waiters) :
          /\ waiters[i].delay = 3000
          /\ written[waiters[i].promise] = 0
          /\ promises[waiters[i].promise] = Unsettled
          /\ waiters[i].promise \notin {pending[k] : k \in DOMAIN pending})
  /\ [](\A i \in 1..Len(settled) :
          /\ settled[i].written <= 1
          /\ settled[i].st = "rejected" => settled[i].written = 1)
  /\ [](\A p \in DOMAIN written : written[p] <= 1)
  /\ [][\A s \in DOMAIN socks :
          SockConnect(s) =>
            /\ waiters' = << >>
            /\ \A p \in WaitingPromises :
                 /\ written'[p] = 1
                 /\ Cardinality({k \in DOMAIN pending' : pending'[k] = p}) = 1
                 /\ promises'[p] = Unsettled]_vars
  /\ [][\A i \in 1..Len(waiters) :
          GraceFire(i) =>
            /\ settled' = <<[promise |-> waiters[i].promise,
                             st |-> "resolved", val |-> <<"null">>,
                             written |-> 0]>>
            /\ pending' = pending
            /\ requestId' = requestId
            /\ \A p \in DOMAIN written' : written'[p] = written[p]]_vars

\* A waiting command's grace timer fired: it resolved to null, unwritten.
C7_Witness ==
  /\ Len(settled) = 1
  /\ settled[1].st = "resolved"
  /\ settled[1].val = <<"null">>
  /\ settled[1].written = 0

\* C8: once a byte stream has been fed, cut into two chunks at any byte
\* offset, the responses settled, the events emitted, their contents and
\* the receive buffer are those of feeding the stream as one chunk.
C8_ChunkingIsInvisible ==
  chunks = << >> =>
    LET whole == OnData(CodecStart, stream) IN
    /\ dispatched = whole.settled
    /\ emitted = whole.emitted
    /\ pending = whole.pending
    /\ timers = whole.timers
    /\ recvBuf = whole.recvBuf

\* The complete lines the next chunk brings: the text received so far cut
\* at every line feed, without the piece after the last one.
FedLines ==
  LET pieces == SplitLF(recvBuf \o Utf8Decode(Head(chunks)), << >>, << >>)
  IN  SubSeq(pieces, 1, Len(pieces) - 1)

\* The messages of the lines that hold a JSON object, in line order.
RECURSIVE ObjectsOf(_)
ObjectsOf(lines) ==
  IF lines = << >> THEN << >>
  ELSE LET r == JsonParse(Head(lines))
           rest == ObjectsOf(Tail(lines))
       IN  IF ~IsBlank(Head(lines)) /\ r.kind = "object"
             THEN <<r.msg>> \o rest ELSE rest

\* The messages handled one after the other.
RECURSIVE HandleAll(_, _)
HandleAll(c, msgs) ==
  IF msgs = << >> THEN c
  ELSE HandleAll(HandleMessage(c, Head(msgs)), Tail(msgs))

\* C9: a complete line that does not parse as a JSON object has no effect:
\* feeding a chunk settles and emits what its well-formed lines alone
\* settle and emit, those before and those after a malformed line alike; no
\* "error" event is emitted, and the pending entries no line answers, the
\* socket and the ready flag do not change.
C9_MalformedLineIsDropped ==
  [][(chunks # << >> /\ chunks' = Tail(chunks)) =>
       LET ref == HandleAll(Cur, ObjectsOf(FedLines)) IN
       /\ settled' = ref.settled
       /\ emitted' = ref.emitted
       /\ pending' = ref.pending
       /\ timers' = ref.timers
       /\ \A i \in 1..Len(emitted') : emitted'[i].name # "error"
       /\ ready' = ready /\ socket' = socket /\ socks' = socks]_vars

\* One chunk held a well-formed line, a truncated one and another
\* well-formed one: the events of the first and of the third were emitted.
C9_Witness ==
  /\ stream = JoinLines(<<EvLoaded, Truncated, EvZero>>)
  /\ chunks = << >>
  /\ Len(emitted) = 4
  /\ emitted[1].name = "mpv-event" /\ emitted[2].name = "file-loaded"
  /\ emitted[3].name = "mpv-event" /\ emitted[4].name = "seek"

\* The frames among msgs that are events: request_id absent or zero, and an
\* event name.
RECURSIVE EventFrames(_)
EventFrames(msgs) ==
  IF msgs = << >> THEN << >>
  ELSE LET m == Head(msgs) IN
       IF /\ m.request_id \in {Undefined, Num("0")}
          /\ m.event # Undefined
         THEN <<m>> \o EventFrames(Tail(msgs))
         ELSE EventFrames(Tail(msgs))

\* The messages of the "mpv-event" emissions among es, in order.
RECURSIVE GenericEvents(_)
GenericEvents(es) ==
  IF es = << >> THEN << >>
  ELSE IF Head(es).name = "mpv-event"
         THEN <<Head(es).msg>> \o GenericEvents(Tail(es))
         ELSE GenericEvents(Tail(es))

\* C10: feeding a chunk emits, after what was emitted before and in the
\* order of the lines on the wire, one event for every decoded frame whose
\* request_id is absent or zero and which names an event, and none for a
\* frame whose request_id is above zero.
C10_EventsInWireOrder ==
  [][(chunks # << >> /\ chunks' = Tail(chunks)) =>
       /\ Len(emitted') >= Len(emitted)
       /\ SubSeq(emitted', 1, Len(emitted)) = emitted
       /\ GenericEvents(SubSeq(emitted', Len(emitted) + 1, Len(emitted')))
            = EventFrames(ObjectsOf(FedLines))]_vars

\* A response that names an event, a frame with request_id zero and a
\* plain event were fed: the last two were emitted, in that order.
C10_Witness ==
  /\ stream = JoinLines(<<RespEvent, EvZero, EvLoaded>>)
  /\ chunks = << >>
  /\ GenericEvents(emitted) =
       <<JsonParse(EvZero).msg, JsonParse(EvLoaded).msg>>
  /\ Len(dispatched) = 1

\* C11: the n-th connect attempt after a spawn is made with 11 - n retries
\* left, so there are at most 11 attempts.  An attempt that fails with
\* retries left arms one timer for the next attempt and emits nothing; when
\* the attempt with no retries left fails, the "Could not connect" error is
\* emitted, once, and no timer is armed: no attempt follows.
C11_ConnectAttemptsAreBounded ==
  /\ [](nSocks <= 11)
  /\ [](\A s \in DOMAIN socks : socks[s].retries = 11 - s)
  /\ [][\A s \in DOMAIN socks :
          SockError(s) =>
            IF socks[s].retries > 0
              THEN /\ connTimers' =
                        [connTimers EXCEPT ![socks[s].retries - 1] = @ + 1]
                   /\ fired' = << >>
              ELSE /\ connTimers' = connTimers
                   /\ \A r \in DOMAIN connTimers : connTimers[r] = 0
                   /\ fired' =
                        <<[name |-> "error",
                           arg |-> <<"Could not connect to mpv IPC pipe: ">>]>>
       ]_vars
  /\ [][(\E i \in 1..Len(fired') :
           fired'[i].arg = <<"Could not connect to mpv IPC pipe: ">>)
          => (nSocks = 11 /\ 11 \in DOMAIN socks
              /\ socks[11].state \in {"connecting", "open"}
              /\ socks'[11].state = "failed")]_vars

\* The eleventh attempt has failed and the error has been emitted.
C11_Witness ==
  /\ nSocks = 11
  /\ fired = <<[name |-> "error",
                arg |-> <<"Could not connect to mpv IPC pipe: ">>]>>
  /\ \A r \in DOMAIN connTimers : connTimers[r] = 0

\* C12: when a socket that had connected fails or closes, no connect attempt
\* is scheduled, and once its 'close' has been handled the socket reference
\* and the ready flag are cleared.
C12_NoReconnectAfterLoss ==
  /\ [][\A s \in DOMAIN socks :
          (socks[s].state = "open" /\ SockError(s)) =>
            connTimers' = connTimers]_vars
  /\ [][\A s \in DOMAIN socks :
          SockClose(s) =>
            (socket' = 0 /\ ready' = FALSE /\ connTimers' = connTimers)]_vars

\* C13: the 'connect' handler stores the socket, sets ready and empties the
\* receive buffer before it emits 'ready': the commands waiting for 'ready'
\* are transmitted, in their order, under the next request ids.  Only then,
\* and only on an instance with default observation enabled, the bootstrap
\* starts: its first command takes the request id after theirs.  An instance
\* created with observeDefaults false never runs a bootstrap and registers
\* none of the default properties.
C13_ConnectSuccessOrder ==
  /\ [][\A s \in DOMAIN socks :
          SockConnect(s) =>
            LET n == Len(waiters) IN
            /\ socket' = s /\ ready' = TRUE /\ recvBuf' = << >>
            /\ fired' = <<[name |-> "ready", arg |-> << >>]>>
            /\ waiters' = << >>
            /\ \A i \in 1..n :
                 /\ requestId + i \in DOMAIN pending'
                 /\ pending'[requestId + i] = waiters[i].promise
            /\ observedProps' = observedProps
            /\ IF observeDefaults
                 THEN /\ requestId' = requestId + n + 1
                      /\ requestId' \in DOMAIN pending'
                      /\ boots' = Append(boots, [await |-> pending'[requestId'],
                                                 next |-> 1])
                 ELSE /\ requestId' = requestId + n
                      /\ boots' = boots]_vars
  /\ [](~observeDefaults =>
          /\ boots = << >>
          /\ \A k \in DOMAIN observedProps :
               \A i \in 1..Len(DefaultProps) :
                 observedProps[k] # DefaultProps[i])

\* An observing instance has connected with one command waiting: the
\* command got request id 1 and the bootstrap's first command id 2.
C13_Witness ==
  /\ observeDefaults
  /\ fired = <<[name |-> "ready", arg |-> << >>]>>
  /\ DOMAIN pending = {1, 2}
  /\ Len(boots) = 1
  /\ boots[1].await = pending[2]
  /\ DOMAIN observedProps = {1}

\* C14: spawn() on an instance that holds a process handle starts no
\* process and arms no connect timer; the handle, the socket, the ready flag
\* and the pending requests with their timers stay as they are.
C14_SpawnWithHandleIsNoOp ==
  [][(process # 0 /\ Spawn(MaxSpawns)) =>
       /\ process' = process /\ procs' = procs /\ nSpawns' = nSpawns
       /\ connTimers' = connTimers
       /\ socket' = socket /\ socks' = socks /\ nSocks' = nSocks
       /\ ready' = ready
       /\ pending' = pending /\ timers' = timers /\ waiters' = waiters
       /\ requestId' = requestId]_vars

\* A connected instance with a request pending, from which spawn() has
\* nothing to do.
C14_Witness ==
  /\ process # 0 /\ socket # 0 /\ ready
  /\ DOMAIN pending # {}
  /\ nSpawns < MaxSpawns
  /\ settled = << >> /\ fired = << >>

\* C15: the 'exit' event of a process other than the one the instance holds
\* leaves the handle, the socket and the ready flag of the instance as they
\* are, so that the process it holds stays referenced.
C15_EarlierExitLeavesLaterProcess ==
  [][\A p \in procs, code \in ExitCodes :
       (process # 0 /\ p # process /\ ProcExit(p, code)) =>
         (process' = process /\ socket' = socket /\ ready' = ready)]_vars

\* C16: the 'exit' handler emits 'exit' with the exit code and clears ready,
\* the socket reference and the process handle; it starts nothing.  The
\* number of processes started changes only in a spawn() step taken without
\* a handle, and such a step does start a process and arm its connect timer.
C16_ExitClearsAndDoesNotRespawn ==
  /\ [][\A p \in procs, code \in ExitCodes :
          ProcExit(p, code) =>
            /\ fired' = <<[name |-> "exit", arg |-> code]>>
            /\ ready' = FALSE /\ socket' = 0 /\ process' = 0
            /\ procs' = procs \ {p}
            /\ nSpawns' = nSpawns /\ connTimers' = connTimers
            /\ nSocks' = nSocks]_vars
  /\ [][nSpawns' # nSpawns => (process = 0 /\ Spawn(MaxSpawns))]_vars
  /\ [][(process = 0 /\ nSpawns < MaxSpawns /\ Spawn(MaxSpawns)) =>
          /\ nSpawns' = nSpawns + 1
          /\ process' = nSpawns' /\ process' \in procs'
          /\ connTimers'[10] = connTimers[10] + 1]_vars

\* The first process has exited with code 1 and spawn() has started a second.
C16_Witness ==
  /\ nSpawns = 2 /\ process = 2 /\ procs = {2}
  /\ socket = 0 /\ ~ready

\* C17: the process 'error' handler emits 'error' and clears ready; and an
\* instance whose process failed to start is not ready for as long as it
\* holds that process's handle.
C17_SpawnFailureStaysNotReady ==
  /\ [][\A p \in procs, started \in BOOLEAN :
          ProcError(p, started) =>
            /\ fired' = <<[name |-> "error", arg |-> <<"child process error">>]>>
            /\ ready' = FALSE]_vars
  /\ []((process # 0 /\ process \notin procs) => ~ready)

\* The j-th running bootstrap returns in this step: the command it awaited
\* resolved and it is no longer running.
BootCompletes(j) ==
  /\ Len(boots') < Len(boots)
  /\ \E i \in 1..Len(settled') :
       /\ settled'[i].promise = boots[j].await
       /\ settled'[i].st = "resolved"

\* The registry after the step, without what the host observed by itself.
DefaultEntries ==
  {k \in DOMAIN observedProps' : observedProps'[k] # "filename"}

\* C18, as stated: when the bootstrap completes the registry holds the 24
\* entries it has added.
C18_BootstrapRegisters24 ==
  [][\A j \in 1..Len(boots) :
       BootCompletes(j) => Cardinality(DefaultEntries) = 24]_vars

\* C18, amended: when the bootstrap completes the registry holds the 21
\* entries it has added, one for each property of the list and in the
\* order of the list.
C18_BootstrapRegisters21 ==
  [][\A j \in 1..Len(boots) :
       BootCompletes(j) =>
         /\ Cardinality(DefaultEntries) = 21
         /\ \A k \in DefaultEntries :
              observedProps'[k] =
                DefaultProps[Cardinality({x \in DefaultEntries : x <= k})]]_vars

\* The bootstrap has completed on an instance the host observed nothing on.
C18_Witness ==
  /\ observeDefaults /\ boots = << >>
  /\ nextObsId = 22
  /\ Len(settled) = 1 /\ settled[1].st = "resolved"
  /\ \A i \in 1..21 : observedProps[i] = DefaultProps[i]

C20_DestroyEmptiesTheMaps ==
  [][Destroy => (pending' = << >> /\ observedProps' = << >>)]_vars

\* C21: the two instances have different pipe names, and a frame that
\* arrives on the socket of one instance leaves the other instance as it
\* is: its pending requests and their promises, its ready flag and the
\* events it has emitted, also when both have the same request ids pending.
C21_InstancesAreIsolated ==
  /\ [](\A i, j \in 1..Len(peers) :
          i # j => peers[i].pipeName # peers[j].pipeName)
  /\ [][\A s \in 1..Len(peers), line \in PairLines :
          PeerData(s, line) =>
            \A j \in 1..Len(peers) : j # s => peers'[j] = peers[j]]_vars

\* Both instances have request 1 pending and the response to request 1 has
\* arrived on the second instance's socket: it settled there alone.
C21_Witness ==
  /\ Len(peers) = 2
  /\ 1 \in DOMAIN peers[1].c.pending
  /\ 1 \notin DOMAIN peers[2].c.pending
  /\ peers[2].c.requestId >= 1
  /\ Len(peers[2].c.settled) = 1
  /\ peers[2].c.settled[1].st = "resolved"

\* The call k that ends in this step.
Finishes(k) ==
  /\ k \in 1..Len(wrapCalls)
  /\ wrapCalls[k].pc # "done"
  /\ wrapCalls'[k].pc = "done"

\* C22: a request through withReady gives the caller's fallback when the
\* failure is "mpv not ready" (the wait for ready ran out), "preview mpv not
\* ready" or "Not connected"; every other failure is thrown on as it is, and
\* a value is returned as it is.
C22_WrapperSwallowsTransientOnly ==
  /\ [][\A k \in 1..Len(wrapCalls) :
          Finishes(k) =>
            LET w == wrapCalls'[k] IN
            IF w.out.st = "resolved"
              THEN w.inner = [st |-> "returned", val |-> w.out.val]
              ELSE IF w.out.val \in {Str(<<"mpv not ready">>),
                                     Str(<<"preview mpv not ready">>),
                                     Str(<<"Not connected">>)}
                THEN w.inner = [st |-> "returned", val |-> w.fallback]
                ELSE w.inner = [st |-> "raised", val |-> w.out.val]]_vars
  /\ [][\A k \in 1..Len(wrapCalls) :
          WaitExpires(k) =>
            wrapCalls'[k].inner =
              [st |-> "returned", val |-> wrapCalls[k].fallback]]_vars

\* A set-property request failed with "Not connected" and gave false.
C22_Witness ==
  \E k \in 1..Len(wrapCalls) :
    /\ wrapCalls[k].handler = "mpv:set-property"
    /\ wrapCalls[k].pc = "done"
    /\ wrapCalls[k].out = [st |-> "rejected", val |-> Str(<<"Not connected">>)]
    /\ wrapCalls[k].result = [st |-> "returned", val |-> <<"false">>]

\* C23: a get-property request the engine answers with "property
\* unavailable" gives null; one it answers with another error text, or with
\* none, throws that error.
C23_UnavailablePropertyIsNull ==
  [][\A k \in 1..Len(wrapCalls) :
       (Finishes(k) /\ wrapCalls[k].handler = "mpv:get-property") =>
         LET w == wrapCalls'[k] IN
         /\ w.out = [st |-> "rejected", val |-> Str(<<"property unavailable">>)]
              => w.result = [st |-> "returned", val |-> Null]
         /\ (w.out.st = "rejected"
              /\ w.out.val \in {Str(<<"property not found">>),
                                Str(<<"mpv error">>)})
              => w.result = [st |-> "raised", val |-> w.out.val]]_vars

\* A get-property request was answered "property unavailable" and gave null.
C23_Witness ==
  \E k \in 1..Len(wrapCalls) :
    /\ wrapCalls[k].handler = "mpv:get-property"
    /\ wrapCalls[k].pc = "done"
    /\ wrapCalls[k].out =
         [st |-> "rejected", val |-> Str(<<"property unavailable">>)]
    /\ wrapCalls[k].result = [st |-> "returned", val |-> Null]

\* The generatePreview calls made so far on a player with a duration, in
\* order.
PreviewCalls ==
  SelectSeq(calls, LAMBDA c : c.op = "generatePreview" /\ c.duration)

C25_DebounceKeepsOnlyTheLastRequest ==
  /\ [](Cardinality(armedTimers) <= 1)
  /\ [](\A t \in armedTimers :
          t.time = lastRequestedTime /\ t.token = requestToken)
  /\ [][\A t \in armedTimers :
          DebounceFire(t) =>
            LET req == [time |-> lastRequestedTime, token |-> requestToken]
            IN  /\ armedTimers' = {}
                /\ IF thumbPending
                     THEN queuedCapture' = <<req>> /\ captures' = captures
                     ELSE /\ captures' = Append(captures, req)
                          /\ queuedCapture' = queuedCapture]_vars

\* Three calls were recorded before the timer fired; the one capture made
\* is for the third.
C25_Witness ==
  /\ Len(calls) = 3
  /\ \A i \in 1..3 : calls[i].op = "generatePreview" /\ calls[i].accepted
  /\ captures = <<[time |-> calls[3].time, token |-> 3]>>
  /\ armedTimers = {}

\* C26: a capture call's result is applied to the preview image only when
\* the call's token is the latest token at the moment the call ends (and
\* the result carries an image); so not after cancelPending() or a newer
\* recorded request.
C26_StaleResultIsDiscarded ==
  /\ [](\A i \in 1..Len(completions) :
          completions[i].applied <=>
            /\ completions[i].token = completions[i].latest
            /\ completions[i].result = "image")
  /\ [][\A f \in inflight, result \in CaptureResults :
          CaptureSettles(f, result) =>
            /\ Len(completions') = Len(completions) + 1
            /\ completions'[Len(completions')].token = f.token
            /\ completions'[Len(completions')].latest = requestToken]_vars

\* A call ended with an image after cancelPending(): it was not applied.
C26_Witness ==
  /\ Len(calls) = 2
  /\ calls[2].op = "cancelPending"
  /\ Len(completions) = 1
  /\ completions[1].result = "image"
  /\ completions[1].token = 1 /\ completions[1].latest = 2
  /\ ~completions[1].applied

\* The latest request is still wanted: the last call that was not dropped
\* is a generatePreview.
Wanted ==
  LET eff == SelectSeq(calls, LAMBDA c : c.accepted) IN
  eff # << >> /\ eff[Len(eff)].op = "generatePreview"

\* C28: a request that reaches _capture while a call is in flight takes the
\* one waiting place, whatever was there; when the call in flight ends a
\* waiting request with the latest token is started in the same step; and
\* the latest recorded request, unless cancelPending(), destroy() or a newer
\* request follows, leads to a capture call for it.
C28_LatestRequestIsCaptured ==
  /\ [][\A t \in armedTimers :
          (DebounceFire(t) /\ thumbPending) =>
            queuedCapture' = <<[time |-> t.time, token |-> t.token]>>]_vars
  /\ [][\A f \in inflight, result \in CaptureResults :
          (/\ CaptureSettles(f, result)
           /\ queuedCapture # << >>
           /\ queuedCapture[1].token = requestToken) =>
            /\ captures' = Append(captures, queuedCapture[1])
            /\ inflight' = {queuedCapture[1]}
            /\ queuedCapture' = << >>]_vars
  /\ (Wanted ~> (~Wanted \/ \E i \in 1..Len(captures) :
                              captures[i].token = requestToken))

\* A request waited while a call was in flight and was started when that
\* call ended.
C28_Witness ==
  /\ Len(captures) = 2
  /\ Len(completions) = 1
  /\ completions[1].token = 1
  /\ captures[2].token = 2
  /\ inflight = {captures[2]}
  /\ queuedCapture = << >> /\ armedTimers = {}

\* C29: the preview cache never holds more than 180 entries once an
\* insertion is over; its entries stay in the order they were inserted, so
\* the entry an insertion into a full cache removes is the oldest inserted
\* one; and a read that hits changes neither the entries nor their order.
C29_CacheIsBoundedFifo ==
  /\ [](Len(previewCache) <= CacheLimit)
  /\ [](\A i \in 1..(Len(previewCache) - 1) :
          insertedAt[previewCache[i]] < insertedAt[previewCache[i + 1]])
  /\ [][nInserts' = nInserts + 1 /\ Len(previewCache) = CacheLimit
          => /\ Len(previewCache') = CacheLimit
             /\ Range(previewCache) \ Range(previewCache')
                  = {Head(previewCache)}
             /\ \A x \in Range(previewCache) :
                  insertedAt[Head(previewCache)] <= insertedAt[x]]_vars
  /\ [][nHits' = nHits + 1 => previewCache' = previewCache]_vars

\* C29 witness: more than 180 insertions were made, the first key was
\* removed and put back later, and the cache was read, while full, after
\* the key was put back.
C29_Witness ==
  /\ nInserts > CacheLimit + 1
  /\ Len(previewCache) = CacheLimit
  /\ 1 \in Range(previewCache) /\ insertedAt[1] > CacheLimit
  /\ nHits > 0
\* The tasks that are between their start and their end.
Running == {k \in 1..Len(tasks) : tasks[k].pc \notin {"queued", "done"}}

\* C27: at most one capture task is between its start and its end at any
\* time, the commands one task sends to the capture engine are not
\* interleaved with those of another, and the renderer has at most one
\* capture call outstanding.
C27_OneCaptureSequenceAtATime ==
  /\ [](Cardinality(Running) <= 1)
  /\ [](\A i, j, l \in 1..Len(previewCmds) :
          i < j /\ j < l /\ previewCmds[i].task = previewCmds[l].task
            => previewCmds[j].task = previewCmds[i].task)
  /\ [][previewCmds' # previewCmds
          => \E k \in Running :
               /\ Running \cup Running' = {k}
               /\ previewCmds' = Append(previewCmds,
                                        previewCmds'[Len(previewCmds')])
               /\ previewCmds'[Len(previewCmds')].task = k]_vars
  /\ [](Cardinality(inflight) <= 1)

\* C27 witness: an earlier task has sent its commands, a second one is
\* waiting for its seek, and a third one waits in the queue behind it while
\* the renderer's call is outstanding.
C27_Witness ==
  \E k \in 1..Len(tasks) :
    /\ tasks[k].pc = "seek"
    /\ \E i \in 1..Len(previewCmds) : previewCmds[i].task < k
    /\ \E j \in 1..Len(tasks) : j > k /\ tasks[j].pc = "queued"
    /\ Cardinality(inflight) = 1

\* The places in the log of commands where a screenshot of key was asked.
Shots(key) ==
  {i \in 1..Len(previewCmds) :
     previewCmds[i].cmd = "screenshot" /\ previewCmds[i].key = key}

CaptureKeys == {Rounded(t) : t \in CaptureTimes}

Called(op) == calls' # calls /\ calls'[Len(calls')].op = op
Ended == completions' # completions

\* The tokens held by a timer, by the waiting request or by a call in
\* flight.
Outstanding ==
  {t.token : t \in armedTimers} \cup {f.token : f \in inflight}
    \cup {queuedCapture[i].token : i \in DOMAIN queuedCapture}

\* C31: cancelPending() makes the latest token differ from every token a
\* timer, the waiting request or a call in flight holds, leaves no timer
\* armed and no request waiting, and changes neither the in-flight flag nor
\* the call in flight; the call in flight ends later, and its result is not
\* applied.
C31_CancelLeavesTheCallInFlight ==
  /\ [][Called("cancelPending")
          => /\ \A tok \in Outstanding : tok # requestToken'
             /\ armedTimers' = {} /\ queuedCapture' = << >>
             /\ thumbPending' = thumbPending /\ inflight' = inflight
             /\ captures' = captures /\ completions' = completions]_vars
  /\ [](thumbPending <=> inflight # {})
  /\ [][Ended /\ (\E i \in 1..Len(calls) :
                     /\ calls[i].op = "cancelPending"
                     /\ \A j \in (i + 1)..Len(calls) : ~calls[j].accepted)
          => /\ ~completions'[Len(completions')].applied
             /\ thumbPending' = FALSE /\ inflight' = {}]_vars

\* C31 witness: two requests were recorded, the first was in flight when
\* cancelPending() was called, and it has ended since with an image that
\* was not applied; nothing else was captured.
C31_Witness ==
  /\ Len(calls) = 3 /\ calls[3].op = "cancelPending"
  /\ calls[1].accepted /\ calls[2].accepted
  /\ Len(captures) = 1 /\ Len(completions) = 1
  /\ completions[1].result = "image" /\ ~completions[1].applied
  /\ completions[1].token = 1
  /\ ~thumbPending /\ armedTimers = {} /\ queuedCapture = << >>

\* C32 as stated: a recorded generatePreview call leaves the latest token
\* as it was, and a call in flight that ends with an image while the timer
\* is armed is applied.
C32_TokenMintedWhenTheTimerFires ==
  [][/\ (Called("generatePreview") => requestToken' = requestToken)
     /\ (Ended /\ armedTimers # {}
            /\ completions'[Len(completions')].result = "image"
          => completions'[Len(completions')].applied)]_vars

\* C32: the token is minted when generatePreview records the request: the
\* latest token goes up by one at that call and the timer armed carries
\* it; the firing of the timer leaves the latest token as it was; and a
\* call in flight that ends while the timer of a later request is armed is
\* not applied.
C32_TokenMintedWhenRecorded ==
  /\ [][Called("generatePreview") /\ calls'[Len(calls')].accepted
          => /\ requestToken' = requestToken + 1
             /\ armedTimers' = {[id |-> debounceTimer',
                                 time |-> calls'[Len(calls')].time,
                                 token |-> requestToken']}]_vars
  /\ [][calls' = calls /\ armedTimers' # armedTimers
          => requestToken' = requestToken]_vars
  /\ [][Ended /\ armedTimers # {}
          => ~completions'[Len(completions')].applied]_vars

\* C32 witness: a call in flight has ended with an image while the timer
\* of a later request was still armed, and the image was not applied.
C32_Witness ==
  /\ armedTimers # {}
  /\ Len(completions) = 1
  /\ completions[1].result = "image" /\ ~completions[1].applied
  /\ \A i \in 1..Len(calls) : calls[i].op = "generatePreview"
  /\ \E t \in armedTimers : t.token = completions[1].token + 1

\* C40: cancelPending() leaves the last requested time as it was; a
\* generatePreview call within 0.25 s of that time is dropped also when
\* cancelPending() was called in between: it arms no timer, mints no token
\* and starts no capture, and after generatePreview(t'), cancelPending(),
\* generatePreview(t) with |t - t'| < 0.25 no capture other than that of
\* the first call is made unless a later request is recorded.
C40_CancelKeepsTheLastRequestedTime ==
  /\ [][Called("cancelPending")
          => lastRequestedTime' = lastRequestedTime]_vars
  /\ [][Called("generatePreview") /\ calls'[Len(calls')].duration
          /\ Abs(calls'[Len(calls')].time - lastRequestedTime) < MinDelta
          => /\ ~calls'[Len(calls')].accepted
             /\ UNCHANGED <<lastRequestedTime, requestToken, debounceTimer,
                            armedTimers, thumbPending, queuedCapture,
                            inflight, captures, completions>>]_vars
  /\ [](/\ Len(calls) >= 3
         /\ calls[1].op = "generatePreview" /\ calls[1].accepted
         /\ calls[2].op = "cancelPending"
         /\ calls[3].op = "generatePreview" /\ calls[3].duration
         /\ Abs(calls[3].time - calls[1].time) < MinDelta
         /\ (\A j \in 4..Len(calls) :
               calls[j].op # "generatePreview" \/ ~calls[j].accepted)
         => /\ ~calls[3].accepted
            /\ armedTimers = {} /\ queuedCapture = << >>
            /\ \A i \in 1..Len(captures) : captures[i].token = 1)

\* C40 witness: generatePreview(0), cancelPending() before the timer
\* fired, then generatePreview(0.2) with a duration set: dropped, and
\* nothing was captured.
C40_Witness ==
  /\ Len(calls) = 3
  /\ calls[1].op = "generatePreview" /\ calls[1].accepted
  /\ calls[2].op = "cancelPending"
  /\ calls[3].op = "generatePreview" /\ calls[3].duration
  /\ calls[3].time # calls[1].time
  /\ Abs(calls[3].time - calls[1].time) < MinDelta
  /\ ~calls[3].accepted
  /\ captures = << >> /\ armedTimers = {}
\* C39: every task handed to the queue ends, also behind a task that
\* threw or gave null; a call of the renderer that ends without an image
\* clears the in-flight flag and starts the waiting request if that is the
\* latest; and the latest recorded request, unless cancelPending() or a
\* newer request follows, leads to a capture call for it.
C39_FailedCaptureDoesNotBlock ==
  /\ \A k \in 1..(CaptCalls + DirectCalls) :
       (Len(tasks) >= k) ~> (Len(tasks) >= k /\ tasks[k].pc = "done")
  /\ [][Ended /\ completions'[Len(completions')].result # "image"
          => IF queuedCapture # << >> /\ queuedCapture[1].token = requestToken
               THEN /\ thumbPending' /\ inflight' = {queuedCapture[1]}
                    /\ captures' = Append(captures, queuedCapture[1])
               ELSE ~thumbPending' /\ inflight' = {}]_vars
  /\ (Wanted ~> (~Wanted \/ \E i \in 1..Len(captures) :
                              captures[i].token = requestToken))

\* C39 witness: a task ended with an error or with null while another
\* waited in the queue behind it, and that one has ended with the image;
\* the renderer's first call ended without an image and its second request
\* was captured.
C39_Witness ==
  /\ \E k, j \in 1..Len(tasks) :
       /\ tasks[j].after = k
       /\ tasks[k].pc = "done"
       /\ \E r \in {"error", "null"} : Replied(tasks[k].call, r)
       /\ tasks[j].pc = "done" /\ Replied(tasks[j].call, "image")
  /\ Len(completions) >= 1 /\ completions[1].result # "image"
  /\ Len(captures) = 2
\* C33: every seek written to a capture engine's process is written to
\* one that has the media loaded, and a task whose engine has nothing
\* loaded sends loadfile before its seek.
C33_SeekOnlyWithMediaLoaded ==
  \A i \in 1..Len(previewCmds) :
    previewCmds[i].cmd = "seek" /\ previewCmds[i].engine # "none"
      => previewCmds[i].engine = "loaded"
\* The play toggles made for the click with that id.
TogglesOf(id) ==
  {i \in 1..Len(relayLog) :
     relayLog[i].ev = "togglePause" /\ relayLog[i].id = id}

\* C34: play is toggled for a click at most once, 250 ms after it and only
\* if no click or double-click message was handled in between; a
\* double-click message leaves no click timer armed and flips the
\* fullscreen state once (when the window exists); and a click followed
\* by a double-click less than 250 ms later never toggles play.
C34_ClickWaitsForDoubleClick ==
  /\ [](\A i \in 1..Len(relayLog) :
          relayLog[i].ev = "togglePause"
            => /\ Cardinality(TogglesOf(relayLog[i].id)) = 1
               /\ \E j \in 1..(i - 1) :
                    /\ relayLog[j].ev = "click"
                    /\ relayLog[j].id = relayLog[i].id
                    /\ relayLog[i].at = relayLog[j].at + ClickDelayMs
                    /\ \A l \in (j + 1)..(i - 1) :
                         relayLog[l].ev = "togglePause")
  /\ [](Cardinality(clickTimers) <= 1)
  /\ [][\A winAlive \in BOOLEAN :
          MouseDblClick(winAlive)
            => /\ clickTimers' = {} /\ clickTimer' = 0
               /\ winAlive => fullscreen' = ~fullscreen]_vars
  /\ [](\A i \in 1..(Len(Messages) - 1) :
          /\ Messages[i].ev = "click"
          /\ Messages[i + 1].ev \in {"dblclick", "dblclick-nowin"}
          /\ Messages[i + 1].at < Messages[i].at + ClickDelayMs
          => TogglesOf(Messages[i].id) = {})

\* C34 witness: a click, a double-click less than 250 ms later, and a
\* click on its own later: play was toggled once, for the last click, and
\* the fullscreen state was flipped once.
C34_Witness ==
  /\ Len(Messages) = 3
  /\ Messages[1].ev = "click" /\ Messages[2].ev = "dblclick"
  /\ Messages[2].at > Messages[1].at
  /\ Messages[2].at < Messages[1].at + ClickDelayMs
  /\ Messages[3].ev = "click"
  /\ TogglesOf(1) = {} /\ Cardinality(TogglesOf(3)) = 1
  /\ fullscreen
\* C35: resolve or reject is called on unsettled promises only: every entry
\* of the pending map has its own timer and its own promise, unsettled,
\* and every waiting command's promise is unsettled and in no entry; the
\* response, the timeout and destroy() each remove the entry they settle;
\* and a response whose id has no entry (timed out, destroyed, answered
\* before) settles nothing and changes nothing.
C35_SettledAtMostOnce ==
  /\ [](DOMAIN timers = DOMAIN pending
         /\ \A id \in DOMAIN pending :
              /\ timers[id].promise = pending[id]
              /\ promises[pending[id]].st = "unsettled"
              /\ \A other \in DOMAIN pending :
                   other # id => pending[other] # pending[id])
  /\ [](\A i \in 1..Len(waiters) :
         /\ promises[waiters[i].promise].st = "unsettled"
         /\ \A id \in DOMAIN pending : pending[id] # waiters[i].promise)
  /\ [][\A i \in 1..Len(settled') :
          /\ settled'[i].promise \in DOMAIN promises
               => promises[settled'[i].promise].st = "unsettled"
          /\ \A id \in DOMAIN pending' :
               pending'[id] # settled'[i].promise
          /\ \A j \in 1..Len(settled') :
               j # i => settled'[j].promise # settled'[i].promise]_vars
  /\ [][\A rid \in 1..requestId, body \in ResponseBodies :
          Receive(rid, body) /\ rid \notin DOMAIN pending
            => /\ settled' = << >>
               /\ UNCHANGED <<life, requestId, pending, timers, waiters,
                              promises, written, emitted, recvBuf,
                              observedProps, nextObsId, boots>>]_vars

\* C35 witness: an id was allocated, no entry and no timer is left, the
\* socket is connected and the handler that ran last settled nothing: the
\* state a response for a request that timed out, was destroyed or was
\* answered before leaves behind.
C35_Witness ==
  /\ requestId >= 1 /\ pending = << >> /\ timers = << >>
  /\ waiters = << >> /\ settled = << >>
  /\ Connected
  /\ \E s \in DOMAIN socks : socks[s].state = "open"
\* The promise named p is waiting for its settlement.
AwaitsSettlement(p) == p \in DOMAIN promises /\ promises[p].st = "unsettled"

\* C36: every command promise is settled in the end, whatever the process
\* and the sockets do: no promise name waits for its settlement from some
\* state on for ever.  An entry of the pending map always has a timer of
\* 10000 ms armed, a waiting command is always in the list the grace timer
\* and 'ready' work on, and every unsettled promise is one of the two.
C36_EveryCommandSettles ==
  /\ [](\A p \in DOMAIN promises :
          promises[p].st = "unsettled"
            => \/ \E id \in DOMAIN timers :
                    /\ timers[id].promise = p
                    /\ timers[id].delay = RequestTimeoutMs
               \/ \E i \in 1..Len(waiters) : waiters[i].promise = p)
  /\ [](DOMAIN promises \subseteq 1..(LifeCalls + 2))
  /\ [](DOMAIN timers \subseteq 1..(LifeCalls + 2))
  /\ \A p \in 1..(LifeCalls + 2) : []<>~AwaitsSettlement(p)

\* C36 witness: a transmitted command was rejected by its timeout after the
\* socket had closed and the process had gone.
C36_Witness ==
  /\ socket = 0 /\ socks = << >> /\ procs = {} /\ process = 0
  /\ \E i \in 1..Len(settled) :
       /\ settled[i].written = 1
       /\ settled[i].st = "rejected" /\ settled[i].val = TimeoutText

\* C37: once the only process started is no longer held (destroy(), or its
\* exit), ready is false and the socket reference is null, and they stay
\* so.
C37_StaysTornDown ==
  (nSpawns >= 1 /\ process = 0) => (~ready /\ socket = 0)

\* C38: ready implies that the socket reference is set, in every state
\* between two handlers.
C38_ReadyImpliesSocket ==
  ready => socket # 0

\* C38 witness: the instance was connected and a command transmitted, and
\* the flag and the reference are both cleared again while the command is
\* still pending.
C38_Witness ==
  /\ ~ready /\ socket = 0
  /\ pending # << >>
====
